---- MODULE Spec2Model ----
(***************************************************************************)
(* Report normalisation and analytics engine of kdp-render-backend         *)
(* (src/services/report_processor.py): report type detection, row          *)
(* extraction, value parsing, and the aggregates computed over the stored  *)
(* campaign records.                                                       *)
(*                                                                         *)
(* Text is a sequence of one-character strings, so that lower(), strip(),  *)
(* substring search and re.sub are computed character by character.        *)
(* Python floats are modelled as exact rationals [n, d] in lowest terms.   *)
(***************************************************************************)
EXTENDS Integers, Sequences, FiniteSets, TLC

VARIABLES
  file,           \* the uploaded file: path, readability, header row, data rows
  report_type,    \* value returned by _detect_report_type, "" before the call
  row,            \* a normalised row handed to _extract_campaign_data
  record,         \* what _extract_campaign_data returned for row
  campaign_data,  \* the committed CampaignData rows of the report
  result,         \* outcome of _process_sponsored_products_campaign / process_report
  analytics,      \* value returned by the latest get_report_analytics
  analytics_log,  \* the values returned by all calls of get_report_analytics
  report,         \* the Report row written by upload_report
  response,       \* the response of the latest route handler
  comparisons,    \* the list handed to _generate_comparison_insights
  raw,            \* the text handed to _parse_number
  number,         \* what _parse_number returned for raw
  date_input,     \* the text handed to _parse_date
  parsed_date,    \* what _parse_date returned for date_input, None before
  recommendations, \* the rule-based recommendations the latest optimization
                  \* handler computed, None before
  ai_call         \* how the latest request to the OpenRouter API ended,
                  \* "none" before

vars == <<file, report_type, row, record, campaign_data, result, analytics,
          analytics_log, report, response, comparisons, raw, number, date_input, parsed_date, recommendations, ai_call>>

----------------------------------------------------------------------------
(* Text *)

\* the lower-case letter of every upper-case letter
LowerOf ==
  ("A" :> "a") @@ ("B" :> "b") @@ ("C" :> "c") @@ ("D" :> "d") @@ ("E" :> "e")
    @@ ("F" :> "f") @@ ("G" :> "g") @@ ("H" :> "h") @@ ("I" :> "i") @@ ("J" :> "j")
    @@ ("K" :> "k") @@ ("L" :> "l") @@ ("M" :> "m") @@ ("N" :> "n") @@ ("O" :> "o")
    @@ ("P" :> "p") @@ ("Q" :> "q") @@ ("R" :> "r") @@ ("S" :> "s") @@ ("T" :> "t")
    @@ ("U" :> "u") @@ ("V" :> "v") @@ ("W" :> "w") @@ ("X" :> "x") @@ ("Y" :> "y")
    @@ ("Z" :> "z")

Digits == <<"0","1","2","3","4","5","6","7","8","9">>

\* str.lower() on one character
LowerChar(c) == IF c \in DOMAIN LowerOf THEN LowerOf[c] ELSE c

\* a Python list: the sequence with every element computed once
List(s) == <<>> \o s

\* str.lower()
Lower(s) == List([i \in 1..Len(s) |-> LowerChar(s[i])])

\* str.lstrip() and str.rstrip(): leading, trailing blanks removed
RECURSIVE LStrip(_)
LStrip(s) == IF s # <<>> /\ Head(s) = " " THEN LStrip(Tail(s)) ELSE s

RECURSIVE RStrip(_)
RStrip(s) ==
  IF s # <<>> /\ s[Len(s)] = " " THEN RStrip(SubSeq(s, 1, Len(s) - 1)) ELSE s

\* str.strip()
Strip(s) == RStrip(LStrip(s))

\* p in s  (substring test)
Contains(s, p) ==
  \E i \in 1..(Len(s) - Len(p) + 1) : SubSeq(s, i, i + Len(p) - 1) = p

\* os.path.basename: what follows the last "/"
Basename(path) ==
  LET slashes == {i \in 1..Len(path) : path[i] = "/"}
  IN  IF slashes = {} THEN path
      ELSE SubSeq(path, (CHOOSE i \in slashes : \A j \in slashes : j <= i) + 1,
                  Len(path))

\* re.sub(r'[,$%]', '', s)
RECURSIVE RemoveSymbols(_)
RemoveSymbols(s) ==
  IF s = <<>> THEN <<>>
  ELSE IF Head(s) \in {",", "$", "%"} THEN RemoveSymbols(Tail(s))
       ELSE <<Head(s)>> \o RemoveSymbols(Tail(s))

\* the length of the longest prefix of s without sep
RECURSIVE PrefixLen(_, _)
PrefixLen(s, sep) ==
  IF s = <<>> \/ Head(s) = sep THEN 0 ELSE 1 + PrefixLen(Tail(s), sep)

\* s.split(sep)
RECURSIVE Split(_, _)
Split(s, sep) ==
  LET c == PrefixLen(s, sep)
  IN  IF c = Len(s) THEN <<s>>
      ELSE <<SubSeq(s, 1, c)>> \o Split(SubSeq(s, c + 2, Len(s)), sep)

\* the value of every digit character
ValueOf ==
  ("0" :> 0) @@ ("1" :> 1) @@ ("2" :> 2) @@ ("3" :> 3) @@ ("4" :> 4)
    @@ ("5" :> 5) @@ ("6" :> 6) @@ ("7" :> 7) @@ ("8" :> 8) @@ ("9" :> 9)

IsDigits(s) == s # <<>> /\ \A i \in 1..Len(s) : s[i] \in DOMAIN ValueOf

DigitValue(c) == ValueOf[c]

RECURSIVE DigitsValue(_)
DigitsValue(s) ==
  IF s = <<>> THEN 0
  ELSE 10 * DigitsValue(SubSeq(s, 1, Len(s) - 1)) + DigitValue(s[Len(s)])

RECURSIVE Pow10(_)
Pow10(k) == IF k = 0 THEN 1 ELSE 10 * Pow10(k - 1)

----------------------------------------------------------------------------
(* Float arithmetic, as exact rationals *)

Abs(x) == IF x < 0 THEN -x ELSE x

RECURSIVE GCD(_, _)
GCD(a, b) == IF b = 0 THEN a ELSE GCD(b, a % b)

\* n/d in lowest terms with a positive denominator (d # 0)
Rat(n, d) ==
  LET g == GCD(Abs(n), Abs(d))
      s == IF d < 0 THEN -1 ELSE 1
  IN  [n |-> s * (n \div g), d |-> s * (d \div g)]

Zero == [n |-> 0, d |-> 1]
Int2Rat(k) == [n |-> k, d |-> 1]
RatAdd(a, b) == Rat(a.n * b.d + b.n * a.d, a.d * b.d)
RatSub(a, b) == Rat(a.n * b.d - b.n * a.d, a.d * b.d)
RatMul(a, b) == Rat(a.n * b.n, a.d * b.d)
\* a / b for b # 0
RatDiv(a, b) == Rat(a.n * b.d, a.d * b.n)
RatLess(a, b) == a.n * b.d < b.n * a.d
RatLeq(a, b) == a.n * b.d <= b.n * a.d
RatPos(a) == a.n > 0
RatMax(a, b) == IF RatLess(a, b) THEN b ELSE a

RECURSIVE RatSum(_)
RatSum(s) == IF s = <<>> THEN Zero ELSE RatAdd(Head(s), RatSum(Tail(s)))

----------------------------------------------------------------------------
(* Value parsers *)

\* the literal tokens _parse_number treats as zero
zero_tokens ==
  { <<>>,
    <<"n","/","a">>,
    <<"n","u","l","l">>,
    <<"n","o","n","e">>,
    <<"-","-">> }

\* the values of float that are not finite: a zero denominator
Infinity == [n |-> 1, d |-> 0]
NegInfinity == [n |-> -1, d |-> 0]
NaN == [n |-> 0, d |-> 0]

IsFinite(x) == x.d # 0

\* the spellings of the values that are not finite, in lower case
special_literals ==
  { <<"i","n","f">>,
    <<"i","n","f","i","n","i","t","y">>,
    <<"n","a","n">> }

\* the text between the blanks, without its sign, in lower case
LiteralBody(s) ==
  Lower(IF Strip(s) # <<>> /\ Head(Strip(s)) \in {"+", "-"} THEN Tail(Strip(s))
        ELSE Strip(s))

\* the text between the blanks starts with "-"
IsNegative(s) == Strip(s) # <<>> /\ Head(Strip(s)) = "-"

\* nothing of a numeral read yet
NoNumeral ==
  [ ok |-> TRUE, phase |-> "int", last |-> "start", any |-> FALSE,
    mantissa |-> 0, fraction |-> 0, exponent |-> 0, down |-> FALSE ]

\* one more character c of a numeral, followed by the character next: the
\* digits of the mantissa, a "_" between two digits, the point, the "e" and
\* the sign and digits of the exponent
ReadNumeral(acc, c, next) ==
  IF c \in DOMAIN ValueOf
    THEN IF acc.phase = "exp"
           THEN [acc EXCEPT !.exponent = 10 * @ + ValueOf[c], !.last = "digit"]
           ELSE [acc EXCEPT !.mantissa = 10 * @ + ValueOf[c],
                            !.fraction = IF acc.phase = "frac" THEN @ + 1 ELSE @,
                            !.any = TRUE, !.last = "digit"]
  ELSE IF c = "_" /\ acc.last = "digit" /\ next \in DOMAIN ValueOf
    THEN [acc EXCEPT !.last = "under"]
  ELSE IF c = "." /\ acc.phase = "int"
    THEN [acc EXCEPT !.phase = "frac", !.last = "point"]
  ELSE IF c = "e" /\ acc.phase # "exp" /\ acc.any
    THEN [acc EXCEPT !.phase = "exp", !.last = "e"]
  ELSE IF c \in {"+", "-"} /\ acc.last = "e"
    THEN [acc EXCEPT !.last = "sign", !.down = (c = "-")]
  ELSE [acc EXCEPT !.ok = FALSE]

\* the numeral read from the text s, from left to right
RECURSIVE Numeral(_, _)
Numeral(s, acc) ==
  IF s = <<>> \/ ~acc.ok THEN acc
  ELSE Numeral(Tail(s), ReadNumeral(acc, Head(s), IF Len(s) > 1 THEN s[2] ELSE ""))

\* float(s) accepts s: blanks around an optionally signed inf, infinity or
\* nan in any letter case, or a decimal numeral ([digits][.digits] with at
\* least one digit, "_" between digits, an optional exponent)
IsFloatLiteral(s) ==
  \/ LiteralBody(s) \in special_literals
  \/ /\ Numeral(LiteralBody(s), NoNumeral).ok
     /\ Numeral(LiteralBody(s), NoNumeral).any
     /\ Numeral(LiteralBody(s), NoNumeral).last \in {"digit", "point"}

\* mantissa / 10^fraction, times or (down) divided by 10^exponent
NumeralValue(negative, acc) ==
  Rat((IF negative THEN -1 ELSE 1) * acc.mantissa
        * (IF acc.down THEN 1 ELSE Pow10(acc.exponent)),
      Pow10(acc.fraction) * (IF acc.down THEN Pow10(acc.exponent) ELSE 1))

\* float(s) for a literal s
FloatValue(s) ==
  IF LiteralBody(s) = <<"n","a","n">> THEN NaN
  ELSE IF LiteralBody(s) \in special_literals
    THEN (IF IsNegative(s) THEN NegInfinity ELSE Infinity)
  ELSE NumeralValue(IsNegative(s), Numeral(LiteralBody(s), NoNumeral))

\* _parse_number; None and '' are both the empty text
ParseNumber(value) ==
  IF value = <<>> \/ Lower(value) \in zero_tokens THEN Zero
  ELSE LET cleaned == RemoveSymbols(value)
       IN  IF IsFloatLiteral(cleaned) THEN FloatValue(cleaned) ELSE Zero

\* the formats _parse_date tries, in order
formats ==
  << [sep |-> "-", fields |-> <<"Y", "m", "d">>],
     [sep |-> "/", fields |-> <<"m", "d", "Y">>],
     [sep |-> "/", fields |-> <<"d", "m", "Y">>],
     [sep |-> "/", fields |-> <<"Y", "m", "d">>],
     [sep |-> "-", fields |-> <<"m", "d", "Y">>],
     [sep |-> "-", fields |-> <<"d", "m", "Y">>] >>

IsLeap(y) == (y % 4 = 0 /\ y % 100 # 0) \/ y % 400 = 0

DaysInMonth(y, m) ==
  IF m = 2 THEN (IF IsLeap(y) THEN 29 ELSE 28)
  ELSE IF m \in {4, 6, 9, 11} THEN 30 ELSE 31

\* whether a strptime directive accepts the text of one field; %d also
\* accepts a blank in front of one digit
FieldMatches(directive, text) ==
  \/ /\ IsDigits(text)
     /\ CASE directive = "Y" -> Len(text) = 4 /\ DigitsValue(text) >= 1
          [] directive = "m" -> Len(text) \in {1, 2} /\ DigitsValue(text) \in 1..12
          [] directive = "d" -> Len(text) \in {1, 2} /\ DigitsValue(text) \in 1..31
  \/ /\ directive = "d"
     /\ Len(text) = 2 /\ text[1] = " "
     /\ text[2] \in DOMAIN ValueOf /\ text[2] # "0"

\* the field of a split date text that a directive reads
FieldOf(parts, fmt, directive) ==
  DigitsValue(LStrip(parts[CHOOSE k \in 1..3 : fmt.fields[k] = directive]))

\* datetime.strptime(date_str, fmt) does not raise ValueError
StrptimeMatches(date_str, fmt) ==
  LET parts == Split(date_str, fmt.sep)
  IN  /\ Len(parts) = 3
      /\ \A k \in 1..3 : FieldMatches(fmt.fields[k], parts[k])
      /\ FieldOf(parts, fmt, "d")
           <= DaysInMonth(FieldOf(parts, fmt, "Y"), FieldOf(parts, fmt, "m"))

\* datetime.strptime(date_str, fmt).date() as <<year, month, day>>
Strptime(date_str, fmt) ==
  LET parts == Split(date_str, fmt.sep)
  IN  <<FieldOf(parts, fmt, "Y"), FieldOf(parts, fmt, "m"), FieldOf(parts, fmt, "d")>>

\* _parse_date returning the date of the last format that parses
ParseDateLastFormat(date_str, today) ==
  IF date_str = <<>> THEN today
  ELSE LET ok == {k \in 1..Len(formats) : StrptimeMatches(date_str, formats[k])}
       IN  IF ok = {} THEN today
           ELSE Strptime(date_str, formats[CHOOSE k \in ok : \A j \in ok : j <= k])

\* _parse_date; today is datetime.utcnow().date()
ParseDate(date_str, today) ==
  IF date_str = <<>> THEN today
  ELSE LET ok == {k \in 1..Len(formats) : StrptimeMatches(date_str, formats[k])}
       IN  IF ok = {} THEN today
           ELSE Strptime(date_str, formats[CHOOSE k \in ok : \A j \in ok : k <= j])

\* date.isoformat() orders dates as text; for four-digit years that is the
\* order of (year, month, day)
DateLess(a, b) ==
  \/ a[1] < b[1]
  \/ a[1] = b[1] /\ a[2] < b[2]
  \/ a[1] = b[1] /\ a[2] = b[2] /\ a[3] < b[3]

----------------------------------------------------------------------------
(* Column mapper and row extractor *)

column_mappings ==
  [ campaign_id |->
      << <<"c","a","m","p","a","i","g","n"," ","i","d">>,
         <<"c","a","m","p","a","i","g","n","i","d">>,
         <<"c","a","m","p","a","i","g","n">> >>,
    campaign_name |->
      << <<"c","a","m","p","a","i","g","n"," ","n","a","m","e">>,
         <<"c","a","m","p","a","i","g","n","n","a","m","e">>,
         <<"c","a","m","p","a","i","g","n">> >>,
    date |->
      << <<"d","a","t","e">>,
         <<"d","a","y">>,
         <<"r","e","p","o","r","t"," ","d","a","t","e">> >>,
    impressions |->
      << <<"i","m","p","r","e","s","s","i","o","n","s">>,
         <<"i","m","p","r">> >>,
    clicks |->
      << <<"c","l","i","c","k","s">>,
         <<"c","l","i","c","k">> >>,
    spend |->
      << <<"s","p","e","n","d">>,
         <<"c","o","s","t">>,
         <<"t","o","t","a","l"," ","s","p","e","n","d">> >>,
    sales |->
      << <<"s","a","l","e","s">>,
         <<"a","t","t","r","i","b","u","t","e","d"," ","s","a","l","e","s"," ","7","d">>,
         <<"a","t","t","r","i","b","u","t","e","d"," ","s","a","l","e","s"," ","1","4","d">>,
         <<"a","t","t","r","i","b","u","t","e","d"," ","s","a","l","e","s"," ","3","0","d">> >>,
    orders |->
      << <<"o","r","d","e","r","s">>,
         <<"a","t","t","r","i","b","u","t","e","d"," ","o","r","d","e","r","s"," ","7","d">>,
         <<"a","t","t","r","i","b","u","t","e","d"," ","o","r","d","e","r","s"," ","1","4","d">>,
         <<"a","t","t","r","i","b","u","t","e","d"," ","o","r","d","e","r","s"," ","3","0","d">> >>,
    units |->
      << <<"u","n","i","t","s">>,
         <<"a","t","t","r","i","b","u","t","e","d"," ","u","n","i","t","s"," ","7","d">>,
         <<"a","t","t","r","i","b","u","t","e","d"," ","u","n","i","t","s"," ","1","4","d">>,
         <<"a","t","t","r","i","b","u","t","e","d"," ","u","n","i","t","s"," ","3","0","d">> >> ]

\* the first spelling present in the row with a non-empty value, else None
\* (None is the empty text: every use tests the value for truth first)
MappedValue(r, possible_columns) ==
  LET hits == {k \in 1..Len(possible_columns) :
                 possible_columns[k] \in DOMAIN r /\ r[possible_columns[k]] # <<>>}
  IN  IF hits = {} THEN <<>>
      ELSE r[possible_columns[CHOOSE k \in hits : \A j \in hits : k <= j]]

\* the guard written y != 0 instead of y > 0
PercentOfNonZero(x, y) ==
  IF y # Zero THEN RatMul(RatDiv(x, y), Int2Rat(100)) ELSE Zero

\* x / y * 100 if y > 0 else 0
PercentOf(x, y) == IF RatPos(y) THEN RatMul(RatDiv(x, y), Int2Rat(100)) ELSE Zero

\* x / y if y > 0 else 0
RatioOf(x, y) == IF RatPos(y) THEN RatDiv(x, y) ELSE Zero

\* Optional values: None is <<>>, a value v is <<v>>
None == <<>>
Some(v) == <<v>>

\* _extract_campaign_data
ExtractCampaignData(r, today) ==
  LET date_text  == MappedValue(r, column_mappings.date)
      name        == MappedValue(r, column_mappings.campaign_name)
      impressions == ParseNumber(MappedValue(r, column_mappings.impressions))
      clicks      == ParseNumber(MappedValue(r, column_mappings.clicks))
      spend       == ParseNumber(MappedValue(r, column_mappings.spend))
      sales       == ParseNumber(MappedValue(r, column_mappings.sales))
      orders      == ParseNumber(MappedValue(r, column_mappings.orders))
      units       == ParseNumber(MappedValue(r, column_mappings.units))
  IN  IF name = <<>> THEN None
      ELSE Some([ campaign_id     |-> MappedValue(r, column_mappings.campaign_id),
                  campaign_name   |-> name,
                  date            |-> IF date_text # <<>>
                                        THEN ParseDate(date_text, today) ELSE today,
                  impressions     |-> impressions,
                  clicks          |-> clicks,
                  spend           |-> spend,
                  sales           |-> sales,
                  orders          |-> orders,
                  units           |-> units,
                  ctr             |-> PercentOf(clicks, impressions),
                  cpc             |-> RatioOf(spend, clicks),
                  acos            |-> PercentOf(spend, sales),
                  roas            |-> RatioOf(sales, spend),
                  conversion_rate |-> PercentOf(orders, clicks) ])

----------------------------------------------------------------------------
(* Campaign report processing *)

\* csv.DictReader pairs the header with the cells of a row; a row shorter
\* than the header gets None values, a longer one gets the key None, and
\* either makes k.strip() / v.strip() raise AttributeError
RowRaises(header_row, cells) == Len(cells) # Len(header_row)

\* k.strip().lower() for every column of the header row
NormaliseHeader(header_row) ==
  List([i \in 1..Len(header_row) |-> Lower(Strip(header_row[i]))])

\* {k.strip().lower(): v.strip() for k, v in row.items()} over the first n
\* columns, keys being the normalised header; of two columns with the
\* same key the later one's value is kept
RECURSIVE NormaliseColumns(_, _, _)
NormaliseColumns(keys, cells, n) ==
  IF n = 0 THEN <<>>
  ELSE (keys[n] :> Strip(cells[n])) @@ NormaliseColumns(keys, cells, n - 1)

NormaliseRow(keys, cells) == NormaliseColumns(keys, cells, Len(keys))

\* the CampaignData row stored for an extracted record
ToCampaignData(d) ==
  [ amazon_campaign_id |-> d.campaign_id,
    campaign_name      |-> d.campaign_name,
    date               |-> d.date,
    impressions        |-> d.impressions,
    clicks             |-> d.clicks,
    ctr                |-> d.ctr,
    cpc                |-> d.cpc,
    spend              |-> d.spend,
    sales              |-> d.sales,
    acos               |-> d.acos,
    roas               |-> d.roas,
    orders             |-> d.orders,
    units              |-> d.units,
    conversion_rate    |-> d.conversion_rate ]

RECURSIVE Flatten(_)
Flatten(ss) == IF ss = <<>> THEN <<>> ELSE Head(ss) \o Flatten(Tail(ss))

\* sum(c.<field> for c in records)
SumOf(records, field) == RatSum(List([i \in 1..Len(records) |-> records[i][field]]))

\* the earliest (latest = FALSE) or latest (latest = TRUE) date of the records,
\* None when there is none
DateRange(records, latest) ==
  IF records = <<>> THEN None
  ELSE LET ds == {records[i].date : i \in 1..Len(records)}
       IN  Some(CHOOSE d \in ds : \A e \in ds :
                  IF latest THEN ~DateLess(d, e) ELSE ~DateLess(e, d))

\* the rows csv.DictReader yields: blank lines are skipped
DataRows(f) == SelectSeq(f.rows, LAMBDA cells : cells # <<>>)

\* whether _process_sponsored_products_campaign raises on the file
ProcessRaises(f) ==
  LET rows == DataRows(f)
  IN  \/ ~f.readable
      \/ \E i \in 1..Len(rows) : RowRaises(f.header, rows[i])

\* the records the loop of _process_sponsored_products_campaign adds to the
\* session, in file order (rows for which the extractor returns None skipped)
ExtractedRecords(f, today) ==
  LET rows == DataRows(f)
      keys == NormaliseHeader(f.header)
  IN  Flatten(List([i \in 1..Len(rows) |->
                      ExtractCampaignData(NormaliseRow(keys, rows[i]), today)]))

\* the records session.add was called for when the loop of
\* _process_sponsored_products_campaign ends or a row raises
AddedRecords(f, today) ==
  IF ~f.readable THEN <<>>
  ELSE LET rows  == DataRows(f)
           stops == {i \in 1..Len(rows) : RowRaises(f.header, rows[i])}
           last  == IF stops = {} THEN Len(rows)
                    ELSE (CHOOSE i \in stops : \A j \in stops : i <= j) - 1
       IN  ExtractedRecords([f EXCEPT !.rows = SubSeq(rows, 1, last)], today)

\* the CampaignData rows a run of _process_sponsored_products_campaign
\* leaves in the table without the rollback of its except branch
StoredRecordsWithoutRollback(f, today) ==
  LET recs == AddedRecords(f, today)
  IN  List([i \in 1..Len(recs) |-> ToCampaignData(recs[i])])

\* the CampaignData rows a run of _process_sponsored_products_campaign
\* leaves in the table: the commit writes every added record, the rollback
\* of the except branch discards them all
StoredRecords(f, today) ==
  IF ProcessRaises(f) THEN <<>>
  ELSE LET recs == AddedRecords(f, today)
       IN  List([i \in 1..Len(recs) |-> ToCampaignData(recs[i])])

\* the value _process_sponsored_products_campaign returns after adding recs
ProcessResult(recs) ==
  LET total_spend == SumOf(recs, "spend")
      total_sales == SumOf(recs, "sales")
  IN  [ status              |-> "returned",
        campaigns_processed |-> Len(recs),
        total_spend         |-> total_spend,
        total_sales         |-> total_sales,
        total_impressions   |-> SumOf(recs, "impressions"),
        total_clicks        |-> SumOf(recs, "clicks"),
        date_range_start    |-> DateRange(recs, FALSE),
        date_range_end      |-> DateRange(recs, TRUE),
        acos                |-> PercentOf(total_spend, total_sales) ]

Raised == [status |-> "raised"]

----------------------------------------------------------------------------
(* Aggregator *)

\* the distinct values of a sequence, in first-seen order (dict insertion order)
RECURSIVE FirstSeen(_)
FirstSeen(s) ==
  IF s = <<>> THEN <<>>
  ELSE LET before == FirstSeen(SubSeq(s, 1, Len(s) - 1))
           x == s[Len(s)]
       IN  IF \E i \in 1..Len(before) : before[i] = x THEN before
           ELSE Append(before, x)

\* _calculate_performance_summary
CalculatePerformanceSummary(data) ==
  LET total_spend == SumOf(data, "spend")
      total_sales == SumOf(data, "sales")
      total_impressions == SumOf(data, "impressions")
      total_clicks == SumOf(data, "clicks")
      total_orders == SumOf(data, "orders")
  IN  [ total_spend       |-> total_spend,
        total_sales       |-> total_sales,
        total_impressions |-> total_impressions,
        total_clicks      |-> total_clicks,
        total_orders      |-> total_orders,
        overall_acos      |-> PercentOf(total_spend, total_sales),
        overall_roas      |-> RatioOf(total_sales, total_spend),
        overall_ctr       |-> PercentOf(total_clicks, total_impressions),
        overall_cpc       |-> RatioOf(total_spend, total_clicks),
        conversion_rate   |-> PercentOf(total_orders, total_clicks) ]

\* an insertion that puts x in front of the elements with an equal key
InsertDescendingBeforeEqual(sorted, x, field) ==
  LET ahead == {i \in 1..Len(sorted) : RatLess(x[field], sorted[i][field])}
      n == Cardinality(ahead)
  IN  SubSeq(sorted, 1, n) \o <<x>> \o SubSeq(sorted, n + 1, Len(sorted))

\* insert x into a sequence sorted by descending item[field], behind the
\* elements whose key is greater than or equal to x's (equal keys keep
\* their order)
InsertDescending(sorted, x, field) ==
  LET ahead == {i \in 1..Len(sorted) : ~RatLess(sorted[i][field], x[field])}
      n == Cardinality(ahead)
  IN  SubSeq(sorted, 1, n) \o <<x>> \o SubSeq(sorted, n + 1, Len(sorted))

\* sorted(items, key=lambda x: x[1][field], reverse=True): a stable sort
RECURSIVE SortedDescending(_, _)
SortedDescending(items, field) ==
  IF items = <<>> THEN <<>>
  ELSE InsertDescending(SortedDescending(SubSeq(items, 1, Len(items) - 1), field),
                        items[Len(items)], field)

\* the slice [:5] of top_performers and worst_performers
TopN == 5

Truncate(s, n) == SubSeq(s, 1, IF Len(s) < n THEN Len(s) ELSE n)

\* a campaigns entry whose acos is the mean of its records' acos values
CampaignAggregateOfRatios(data, campaign_id) ==
  LET members == SelectSeq(data, LAMBDA c : c.amazon_campaign_id = campaign_id)
      total_spend == SumOf(members, "spend")
      total_sales == SumOf(members, "sales")
      total_impressions == SumOf(members, "impressions")
      total_clicks == SumOf(members, "clicks")
      total_orders == SumOf(members, "orders")
  IN  [ campaign_id       |-> campaign_id,
        name              |-> members[1].campaign_name,
        total_spend       |-> total_spend,
        total_sales       |-> total_sales,
        total_impressions |-> total_impressions,
        total_clicks      |-> total_clicks,
        total_orders      |-> total_orders,
        days              |-> Len(members),
        acos              |-> RatDiv(SumOf(members, "acos"), Int2Rat(Len(members))),
        roas              |-> RatioOf(total_sales, total_spend),
        ctr               |-> PercentOf(total_clicks, total_impressions),
        cpc               |-> RatioOf(total_spend, total_clicks),
        conversion_rate   |-> PercentOf(total_orders, total_clicks) ]

\* one entry of the campaigns dict of _analyze_campaigns
CampaignAggregate(data, campaign_id) ==
  LET members == SelectSeq(data, LAMBDA c : c.amazon_campaign_id = campaign_id)
      total_spend == SumOf(members, "spend")
      total_sales == SumOf(members, "sales")
      total_impressions == SumOf(members, "impressions")
      total_clicks == SumOf(members, "clicks")
      total_orders == SumOf(members, "orders")
  IN  [ campaign_id       |-> campaign_id,
        name              |-> members[1].campaign_name,
        total_spend       |-> total_spend,
        total_sales       |-> total_sales,
        total_impressions |-> total_impressions,
        total_clicks      |-> total_clicks,
        total_orders      |-> total_orders,
        days              |-> Len(members),
        acos              |-> PercentOf(total_spend, total_sales),
        roas              |-> RatioOf(total_sales, total_spend),
        ctr               |-> PercentOf(total_clicks, total_impressions),
        cpc               |-> RatioOf(total_spend, total_clicks),
        conversion_rate   |-> PercentOf(total_orders, total_clicks) ]

\* _analyze_campaigns; campaign_details lists the dict in insertion order
AnalyzeCampaigns(data) ==
  LET ids == FirstSeen(List([i \in 1..Len(data) |-> data[i].amazon_campaign_id]))
      campaigns == List([k \in 1..Len(ids) |-> CampaignAggregate(data, ids[k])])
  IN  [ total_campaigns  |-> Len(campaigns),
        top_performers   |-> Truncate(SortedDescending(campaigns, "roas"), TopN),
        worst_performers |-> Truncate(SortedDescending(campaigns, "acos"), TopN),
        campaign_details |-> campaigns ]

\* one entry of the daily_data dict of _analyze_trends
DailyAggregate(data, date) ==
  LET members == SelectSeq(data, LAMBDA c : c.date = date)
      spend == SumOf(members, "spend")
      sales == SumOf(members, "sales")
      impressions == SumOf(members, "impressions")
      clicks == SumOf(members, "clicks")
  IN  [ date        |-> date,
        spend       |-> spend,
        sales       |-> sales,
        impressions |-> impressions,
        clicks      |-> clicks,
        orders      |-> SumOf(members, "orders"),
        acos        |-> PercentOf(spend, sales),
        roas        |-> RatioOf(sales, spend),
        ctr         |-> PercentOf(clicks, impressions) ]

\* the entry of daily_data with the first (latest = FALSE) or last
\* (latest = TRUE) key of daily_data.keys() as they were inserted
DailyAtInsertion(daily_data, latest) ==
  IF latest THEN daily_data[Len(daily_data)] ELSE daily_data[1]

\* the entry of daily_data with the first (latest = FALSE) or last
\* (latest = TRUE) key of sorted(daily_data.keys())
DailyAt(daily_data, latest) ==
  CHOOSE d \in {daily_data[i] : i \in 1..Len(daily_data)} :
    \A i \in 1..Len(daily_data) :
      IF latest THEN ~DateLess(d.date, daily_data[i].date)
      ELSE ~DateLess(daily_data[i].date, d.date)

\* a trend direction that counts the 90% and 110% marks themselves
CalculateTrendDirectionInclusive(daily_data) ==
  IF Len(daily_data) < 2 THEN "insufficient_data"
  ELSE LET recent_acos == DailyAt(daily_data, TRUE).acos
           older_acos == DailyAt(daily_data, FALSE).acos
       IN  IF RatLeq(recent_acos, RatMul(older_acos, Rat(9, 10))) THEN "improving"
           ELSE IF RatLeq(RatMul(older_acos, Rat(11, 10)), recent_acos) THEN "declining"
           ELSE "stable"

\* _calculate_trend_direction; 0.9 and 1.1 are the exact fractions
CalculateTrendDirection(daily_data) ==
  IF Len(daily_data) < 2 THEN "insufficient_data"
  ELSE LET recent_acos == DailyAt(daily_data, TRUE).acos
           older_acos == DailyAt(daily_data, FALSE).acos
       IN  IF RatLess(recent_acos, RatMul(older_acos, Rat(9, 10))) THEN "improving"
           ELSE IF RatLess(RatMul(older_acos, Rat(11, 10)), recent_acos) THEN "declining"
           ELSE "stable"

\* _analyze_trends; daily_performance lists the dict in insertion order
AnalyzeTrends(data) ==
  LET dates == FirstSeen(List([i \in 1..Len(data) |-> data[i].date]))
      daily_data == List([k \in 1..Len(dates) |-> DailyAggregate(data, dates[k])])
  IN  [ daily_performance |-> daily_data,
        trend_direction   |-> CalculateTrendDirection(daily_data) ]

\* the efficiency_score one record leaves in its campaign's entry
RecordEfficiency(c) ==
  LET efficiency == IF RatPos(c.roas)
                      THEN RatSub(RatMul(c.roas, Int2Rat(10)), RatDiv(c.acos, Int2Rat(10)))
                      ELSE Zero
  IN  RatMax(efficiency, Zero)

\* one entry of campaign_efficiency: the name of the campaign's first record
\* and the score written by its last record (each record overwrites it)
CampaignEfficiency(data, campaign_id) ==
  LET members == SelectSeq(data, LAMBDA c : c.amazon_campaign_id = campaign_id)
  IN  [ campaign_id            |-> campaign_id,
        name                   |-> members[1].campaign_name,
        efficiency_score       |-> RecordEfficiency(members[Len(members)]),
        optimization_potential |-> 0,
        waste_score            |-> 0 ]

\* _calculate_efficiency_metrics
CalculateEfficiencyMetrics(data) ==
  LET ids == FirstSeen(List([i \in 1..Len(data) |-> data[i].amazon_campaign_id]))
      campaign_efficiency == List([k \in 1..Len(ids) |-> CampaignEfficiency(data, ids[k])])
      scores == List([k \in 1..Len(ids) |-> campaign_efficiency[k].efficiency_score])
  IN  [ campaign_efficiency |-> campaign_efficiency,
        overall_efficiency  |-> IF campaign_efficiency # <<>>
                                  THEN RatDiv(RatSum(scores), Int2Rat(Len(scores)))
                                  ELSE Zero ]

\* _generate_recommendations
GenerateRecommendations(data) ==
  LET high_acos == SelectSeq(data, LAMBDA c : RatLess(Int2Rat(50), c.acos))
      low_impression == SelectSeq(data, LAMBDA c : RatLess(c.impressions, Int2Rat(100)))
      high_roas == SelectSeq(data, LAMBDA c : RatLess(Int2Rat(3), c.roas))
      entry(type, priority, campaigns) ==
        IF campaigns = <<>> THEN <<>>
        ELSE << [type |-> type, priority |-> priority,
                 affected_campaigns |-> Len(campaigns)] >>
  IN  entry("high_acos_alert", "high", high_acos)
        \o entry("low_impressions", "medium", low_impression)
        \o entry("scale_opportunity", "high", high_roas)

\* an aggregator that leaves out one stored row for every run made before
GetReportAnalyticsIncremental(data) ==
  LET fresh == SubSeq(data, Len(analytics_log) + 1, Len(data))
  IN  IF fresh = <<>> THEN [status |-> "error", error |-> "No campaign data found"]
      ELSE [ status              |-> "ok",
             performance_summary |-> CalculatePerformanceSummary(fresh),
             campaign_analysis   |-> AnalyzeCampaigns(fresh),
             trend_analysis      |-> AnalyzeTrends(fresh),
             efficiency_metrics  |-> CalculateEfficiencyMetrics(fresh),
             recommendations     |-> GenerateRecommendations(fresh) ]

\* get_report_analytics over the stored rows of the report
GetReportAnalytics(data) ==
  IF data = <<>> THEN [status |-> "error", error |-> "No campaign data found"]
  ELSE [ status              |-> "ok",
         performance_summary |-> CalculatePerformanceSummary(data),
         campaign_analysis   |-> AnalyzeCampaigns(data),
         trend_analysis      |-> AnalyzeTrends(data),
         efficiency_metrics  |-> CalculateEfficiencyMetrics(data),
         recommendations     |-> GenerateRecommendations(data) ]

----------------------------------------------------------------------------
(* Report type detector *)

pattern ==
  [ sponsored_products |-> <<"s","p","o","n","s","o","r","e","d","_","p","r","o","d","u","c","t","s">>,
    campaign |-> <<"c","a","m","p","a","i","g","n">>,
    keyword |-> <<"k","e","y","w","o","r","d">>,
    targeting |-> <<"t","a","r","g","e","t","i","n","g">>,
    sponsored_brands |-> <<"s","p","o","n","s","o","r","e","d","_","b","r","a","n","d","s">>,
    sponsored_display |-> <<"s","p","o","n","s","o","r","e","d","_","d","i","s","p","l","a","y">>,
    search_term |-> <<"s","e","a","r","c","h","_","t","e","r","m">>,
    search_dash_term |-> <<"s","e","a","r","c","h","-","t","e","r","m">> ]

\* header names with the search term column spelled like the file name pattern
headerUnderscored ==
  [ campaign_name |-> <<"c","a","m","p","a","i","g","n"," ","n","a","m","e">>,
    impressions |-> <<"i","m","p","r","e","s","s","i","o","n","s">>,
    keyword |-> <<"k","e","y","w","o","r","d">>,
    targeting |-> <<"t","a","r","g","e","t","i","n","g">>,
    search_term |-> <<"s","e","a","r","c","h","_","t","e","r","m">> ]

header ==
  [ campaign_name |-> <<"c","a","m","p","a","i","g","n"," ","n","a","m","e">>,
    impressions |-> <<"i","m","p","r","e","s","s","i","o","n","s">>,
    keyword |-> <<"k","e","y","w","o","r","d">>,
    targeting |-> <<"t","a","r","g","e","t","i","n","g">>,
    search_term |-> <<"s","e","a","r","c","h"," ","t","e","r","m">> ]

\* a detector that tests the keyword patterns ahead of the campaign patterns
DetectReportTypeKeywordFirst(f) ==
  LET filename == Lower(Basename(f.path))
      headers_lower == List([i \in 1..Len(f.header) |-> Strip(Lower(f.header[i]))])
      has(h) == \E i \in 1..Len(headers_lower) : headers_lower[i] = h
  IN  IF Contains(filename, pattern.sponsored_products)
           /\ (Contains(filename, pattern.keyword) \/ Contains(filename, pattern.targeting))
        THEN "sponsored_products_keyword"
      ELSE IF Contains(filename, pattern.sponsored_products)
           /\ Contains(filename, pattern.campaign)
        THEN "sponsored_products_campaign"
      ELSE IF Contains(filename, pattern.sponsored_brands)
           /\ (Contains(filename, pattern.keyword) \/ Contains(filename, pattern.targeting))
        THEN "sponsored_brands_keyword"
      ELSE IF Contains(filename, pattern.sponsored_brands)
           /\ Contains(filename, pattern.campaign)
        THEN "sponsored_brands_campaign"
      ELSE IF Contains(filename, pattern.sponsored_display)
        THEN "sponsored_display_campaign"
      ELSE IF Contains(filename, pattern.search_term)
           \/ Contains(filename, pattern.search_dash_term)
        THEN "search_term"
      ELSE IF f.readable /\ has(header.campaign_name) /\ has(header.impressions)
        THEN (IF has(header.keyword) \/ has(header.targeting)
                THEN "sponsored_products_keyword"
                ELSE "sponsored_products_campaign")
      ELSE IF f.readable /\ has(header.search_term)
        THEN "search_term"
      ELSE "sponsored_products_campaign"

\* _detect_report_type; f.readable is whether open() and the csv reader succeed
DetectReportType(f) ==
  LET filename == Lower(Basename(f.path))
      headers_lower == List([i \in 1..Len(f.header) |-> Strip(Lower(f.header[i]))])
      has(h) == \E i \in 1..Len(headers_lower) : headers_lower[i] = h
  IN  IF Contains(filename, pattern.sponsored_products)
           /\ Contains(filename, pattern.campaign)
        THEN "sponsored_products_campaign"
      ELSE IF Contains(filename, pattern.sponsored_products)
           /\ (Contains(filename, pattern.keyword) \/ Contains(filename, pattern.targeting))
        THEN "sponsored_products_keyword"
      ELSE IF Contains(filename, pattern.sponsored_brands)
           /\ Contains(filename, pattern.campaign)
        THEN "sponsored_brands_campaign"
      ELSE IF Contains(filename, pattern.sponsored_brands)
           /\ (Contains(filename, pattern.keyword) \/ Contains(filename, pattern.targeting))
        THEN "sponsored_brands_keyword"
      ELSE IF Contains(filename, pattern.sponsored_display)
        THEN "sponsored_display_campaign"
      ELSE IF Contains(filename, pattern.search_term)
           \/ Contains(filename, pattern.search_dash_term)
        THEN "search_term"
      ELSE IF f.readable /\ has(header.campaign_name) /\ has(header.impressions)
        THEN (IF has(header.keyword) \/ has(header.targeting)
                THEN "sponsored_products_keyword"
                ELSE "sponsored_products_campaign")
      ELSE IF f.readable /\ has(header.search_term)
        THEN "search_term"
      ELSE "sponsored_products_campaign"

\* the keys of supported_formats
supported_formats ==
  { "sponsored_products_campaign", "sponsored_products_keyword",
    "sponsored_brands_campaign", "sponsored_brands_keyword",
    "sponsored_display_campaign", "search_term" }

----------------------------------------------------------------------------
(* Inputs *)

MaxNameParts == 3

\* directories a file may be stored in
Directories ==
  { <<"u","p","l","o","a","d","s","/">>,
    <<"s","p","o","n","s","o","r","e","d","_","d","i","s","p","l","a","y","/">> }

\* pieces file names are put together from
NameParts ==
  { <<"S","p","o","n","s","o","r","e","d","P","r","o","d","u","c","t","s">>,
    <<"S","p","o","n","s","o","r","e","d","_","P","r","o","d","u","c","t","s">>,
    <<"s","p","o","n","s","o","r","e","d","_","b","r","a","n","d","s">>,
    <<"S","p","o","n","s","o","r","e","d","_","D","i","s","p","l","a","y">>,
    <<"S","e","a","r","c","h","-","T","e","r","m">>,
    <<"s","e","a","r","c","h","_","t","e","r","m">>,
    <<"_","k","e","y","w","o","r","d">>,
    <<"-","T","a","r","g","e","t","i","n","g">>,
    <<"_","C","a","m","p","a","i","g","n","_","r","e","p","o","r","t",".","c","s","v">> }

\* header rows a file may start with (the last: an empty file)
HeaderRows ==
  { << <<"C","a","m","p","a","i","g","n"," ","N","a","m","e">>,
       <<"I","m","p","r","e","s","s","i","o","n","s">>,
       <<"K","e","y","w","o","r","d">> >>,
    << <<" ","c","a","m","p","a","i","g","n"," ","n","a","m","e"," ">>,
       <<"I","M","P","R","E","S","S","I","O","N","S">>,
       <<"C","l","i","c","k","s">> >>,
    << <<"C","a","m","p","a","i","g","n"," ","N","a","m","e">>,
       <<"I","m","p","r","e","s","s","i","o","n","s">>,
       <<"T","a","r","g","e","t","i","n","g">>,
       <<"S","e","a","r","c","h"," ","T","e","r","m">> >>,
    << <<"S","e","a","r","c","h"," ","T","e","r","m">>,
       <<"I","m","p","r","e","s","s","i","o","n","s">> >>,
    << <<"C","a","m","p","a","i","g","n"," ","N","a","m","e">>,
       <<"S","e","a","r","c","h"," ","T","e","r","m">> >>,
    << <<"C","a","m","p","a","i","g","n"," ","N","a","m","e">>,
       <<"I","m","p","r","e","s","s","i","o","n","s">>,
       <<"K","e","y","w","o","r","d"," ","T","e","x","t">> >>,
    << <<"N","a","m","e">>,
       <<"V","a","l","u","e">> >>,
    <<  >> }

\* texts a numeric cell may hold
NumberTexts ==
  { <<>>,
    <<"0">>,
    <<"2","0">>,
    <<"-","5">>,
    <<"$","1","2",".","5","0">> }

\* texts a date cell may hold
DateTexts ==
  { <<>>,
    <<"2","0","2","4","-","0","3","-","0","5">>,
    <<"1","3","/","0","5","/","2","0","2","4">> }

\* texts a campaign name cell may hold
NameTexts ==
  { <<>>,
    <<"B","o","o","k"," ","A">> }

\* file names of at most k pieces
RECURSIVE NamesOf(_)
NamesOf(k) ==
  IF k = 0 THEN {<<>>}
  ELSE LET shorter == NamesOf(k - 1)
       IN  shorter \cup {n \o p : n \in shorter, p \in NameParts}

FilePaths == {d \o n : d \in Directories, n \in NamesOf(MaxNameParts) \ {<<>>}}

\* datetime.utcnow().date() at the time of the call
Today == <<2024, 6, 15>>

NoFile == [path |-> <<>>, readable |-> FALSE, header |-> <<>>, rows |-> <<>>]
NoRow == <<>>
NotRun == [status |-> "not_run"]
NotExtracted == [done |-> FALSE, value |-> None]
NoReport == [processing_status |-> "none"]
NoResponse == [route |-> "none", code |-> 0]
NotParsed == [done |-> FALSE, value |-> Zero]

\* no route handler and no analytics has run yet
RoutesIdle ==
  /\ analytics_log = <<>>
  /\ report = NoReport
  /\ response = NoResponse
  /\ comparisons = <<>>
  /\ recommendations = None
  /\ ai_call = "none"

\* _parse_number and _parse_date have not been called yet
ParserIdle ==
  /\ raw = <<>>
  /\ number = NotParsed
  /\ date_input = <<>>
  /\ parsed_date = None

\* a normalised row (lower-cased, trimmed header -> trimmed value)
MkRow(name, date, impressions, clicks, spend_column, spend, sales, orders, units) ==
  (column_mappings.campaign_name[1] :> name)
    @@ (column_mappings.date[1] :> date)
    @@ (column_mappings.impressions[1] :> impressions)
    @@ (column_mappings.clicks[1] :> clicks)
    @@ (column_mappings.spend[spend_column] :> spend)
    @@ (column_mappings.sales[1] :> sales)
    @@ (column_mappings.orders[1] :> orders)
    @@ (column_mappings.units[1] :> units)

----------------------------------------------------------------------------
(* The detector applied to a file *)

InitDetect ==
  /\ file \in [path : FilePaths, readable : {TRUE}, header : HeaderRows, rows : {<<>>}]
               \cup [path : FilePaths, readable : {FALSE}, header : {<<>>}, rows : {<<>>}]
  /\ report_type = ""
  /\ row = NoRow
  /\ record = NotExtracted
  /\ campaign_data = <<>>
  /\ result = NotRun
  /\ analytics = NotRun
  /\ RoutesIdle
  /\ ParserIdle

Detect ==
  /\ report_type = ""
  /\ report_type' = DetectReportType(file)
  /\ UNCHANGED <<file, row, record, campaign_data, result, analytics, analytics_log, report, response, comparisons, raw, number, date_input, parsed_date, recommendations, ai_call>>

NextDetect == Detect

SpecDetect == InitDetect /\ [][NextDetect]_vars

----------------------------------------------------------------------------
(* The row extractor applied to a row *)

InitExtract ==
  /\ file = NoFile
  /\ report_type = ""
  /\ row \in { MkRow(name, date, i, c, k, sp, sa, o, u) :
                name \in NameTexts, date \in DateTexts,
                i \in NumberTexts, c \in NumberTexts, k \in 1..2,
                sp \in NumberTexts, sa \in NumberTexts, o \in NumberTexts,
                u \in {<<>>, <<"2">>} }
  /\ record = NotExtracted
  /\ campaign_data = <<>>
  /\ result = NotRun
  /\ analytics = NotRun
  /\ RoutesIdle
  /\ ParserIdle

Extract ==
  /\ ~record.done
  /\ record' = [done |-> TRUE, value |-> ExtractCampaignData(row, Today)]
  /\ UNCHANGED <<file, report_type, row, campaign_data, result, analytics, analytics_log, report, response, comparisons, raw, number, date_input, parsed_date, recommendations, ai_call>>

NextExtract == Extract

SpecExtract == InitExtract /\ [][NextExtract]_vars

----------------------------------------------------------------------------
(* Upload of a campaign report and the analytics over its stored rows *)

MaxRows == 3
MaxRankRows == 6

\* how often get_report_analytics is called for one report
MaxRuns == 2

\* the header row of the campaign reports
CampaignHeader ==
  << <<" ","C","a","m","p","a","i","g","n"," ","I","D"," ">>,
     <<"C","a","m","p","a","i","g","n"," ","N","a","m","e">>,
     <<"D","a","t","e">>,
     <<"I","m","p","r","e","s","s","i","o","n","s">>,
     <<"C","l","i","c","k","s">>,
     <<"C","o","s","t">>,
     <<"S","a","l","e","s">>,
     <<"O","r","d","e","r","s">> >>

\* the lines a campaign report is written from: campaigns c1 and c2 on two
\* days, a row without campaign name, a short row, a long row, and a row of
\* unparseable and negative cells
ReportLines ==
  { << <<"c","1">>,
       <<"B","o","o","k"," ","A">>,
       <<"2","0","2","4","-","0","3","-","0","1">>,
       <<"1",",","0","0","0">>,
       <<"1","0">>,
       <<"1","0">>,
       <<"0">>,
       <<"0">> >>,
    << <<"c","1">>,
       <<"B","o","o","k"," ","A">>,
       <<"2","0","2","4","-","0","3","-","0","2">>,
       <<"1",",","0","0","0">>,
       <<"2","0">>,
       <<"0">>,
       <<"2","0">>,
       <<"2">> >>,
    << <<"c","2">>,
       <<"B","o","o","k"," ","B">>,
       <<"2","0","2","4","-","0","3","-","0","1">>,
       <<"5","0","0">>,
       <<"1","0">>,
       <<"4","0">>,
       <<"1","0","0">>,
       <<"4">> >>,
    << <<"c","2">>,
       <<"B","o","o","k"," ","B">>,
       <<"2","0","2","4","-","0","3","-","0","2">>,
       <<"5","0","0">>,
       <<"1","0">>,
       <<"3","6">>,
       <<"1","0","0">>,
       <<"4">> >>,
    << <<"c","2">>,
       <<"B","o","o","k"," ","B">>,
       <<"2","0","2","4","-","0","3","-","0","1">>,
       <<"5","0","0">>,
       <<"1","0">>,
       <<"3","0">>,
       <<"1","0","0">>,
       <<"4">> >>,
    << <<"c","2">>,
       <<"B","o","o","k"," ","B">>,
       <<"2","0","2","4","-","0","3","-","0","2">>,
       <<"5","0">>,
       <<"1","0">>,
       <<"3","3">>,
       <<"1","0","0">>,
       <<"4">> >>,
    << <<"c","3">>,
       <<>>,
       <<"2","0","2","4","-","0","3","-","0","1">>,
       <<"1","0","0">>,
       <<"1">>,
       <<"5">>,
       <<"1","0">>,
       <<"1">> >>,
    << <<"c","1">>,
       <<"B","o","o","k"," ","A">> >>,
    << <<"c","1">>,
       <<"B","o","o","k"," ","A">>,
       <<"2","0","2","4","-","0","3","-","0","1">>,
       <<"1","0","0">>,
       <<"1">>,
       <<"5">>,
       <<"1","0">>,
       <<"1">>,
       <<"e","x","t","r","a">> >>,
    << <<"c","1">>,
       <<"B","o","o","k"," ","A">>,
       <<"y","e","s","t","e","r","d","a","y">>,
       <<"n","/","a">>,
       <<"a","b","c">>,
       <<"-","5">>,
       <<"$","1","0",".","0","0">>,
       <<"-","-">> >> }

\* the metric profiles of the lines of a ranking report
RankProfiles ==
  { [spend |-> <<"1","0">>, sales |-> <<"2","0">>],
    [spend |-> <<"1","0">>, sales |-> <<"4","0">>],
    [spend |-> <<"1","0">>, sales |-> <<"0">>] }

\* the line of the k-th campaign of a ranking report (ids run downwards,
\* c9, c8, ..., so that first-seen order is not id order)
RankLine(k, profile) ==
  << <<"c", Digits[11 - k]>>, <<"B", Digits[11 - k]>>,
     <<"2","0","2","4","-","0","3","-","0","1">>, <<"5","0","0">>, <<"1","0">>,
     profile.spend, profile.sales, <<"1">> >>

Init ==
  /\ file \in { [path |-> <<>>, readable |-> TRUE, header |-> CampaignHeader, rows |-> <<>>],
               NoFile }
  /\ report_type = ""
  /\ row = NoRow
  /\ record = NotExtracted
  /\ campaign_data = <<>>
  /\ result = NotRun
  /\ analytics = NotRun
  /\ RoutesIdle
  /\ ParserIdle

\* the user's export writes one more line to the file before uploading it
AppendRow(cells, max_rows) ==
  /\ result = NotRun
  /\ file.readable
  /\ Len(file.rows) < max_rows
  /\ file' = [file EXCEPT !.rows = Append(@, cells)]
  /\ UNCHANGED <<report_type, row, record, campaign_data, result, analytics, analytics_log, report, response, comparisons, raw, number, date_input, parsed_date, recommendations, ai_call>>

\* _process_sponsored_products_campaign on the file: every row is added to
\* the session and committed, or the session is rolled back and it raises
ProcessSponsoredProductsCampaign ==
  /\ result = NotRun
  /\ result' = IF ProcessRaises(file) THEN Raised
               ELSE ProcessResult(ExtractedRecords(file, Today))
  /\ campaign_data' = campaign_data \o StoredRecords(file, Today)
  /\ UNCHANGED <<file, report_type, row, record, analytics, analytics_log, report, response, comparisons, raw, number, date_input, parsed_date, recommendations, ai_call>>

\* get_report_analytics for the report
Analytics ==
  /\ result # NotRun
  /\ Len(analytics_log) < MaxRuns
  /\ analytics' = GetReportAnalytics(campaign_data)
  /\ analytics_log' = Append(analytics_log, analytics')
  /\ UNCHANGED <<file, report_type, row, record, campaign_data, result, report, response, comparisons, raw, number, date_input, parsed_date, recommendations, ai_call>>

Next ==
  \/ \E cells \in ReportLines : AppendRow(cells, MaxRows)
  \/ ProcessSponsoredProductsCampaign
  \/ Analytics

Spec == Init /\ [][Next]_vars

\* a ranking report: one line per campaign
NextRank ==
  \/ \E profile \in RankProfiles :
       AppendRow(RankLine(Len(file.rows) + 1, profile), MaxRankRows)
  \/ ProcessSponsoredProductsCampaign
  \/ Analytics

SpecRank == Init /\ [][NextRank]_vars

----------------------------------------------------------------------------
(* The language model service *)

\* the public methods of LLMService with the number of arguments each takes
\* besides self; none of them takes keyword arguments
llm_methods ==
  [ analyze_campaign_performance          |-> 1,
    analyze_competitive_landscape         |-> 1,
    generate_keyword_recommendations      |-> 1,
    generate_optimization_recommendations |-> 1 ]

\* llm_service.<method>(...) with that many positional and keyword arguments
\* raises AttributeError or TypeError before the body of the method runs
CallRaises(method, positional, keywords) ==
  \/ method \notin DOMAIN llm_methods
  \/ keywords # 0
  \/ positional # llm_methods[method]

\* how a request to the OpenRouter API can end: no key is configured, the
\* connection fails or times out, the status is an HTTP error, the body is
\* not the expected JSON, or the content of the first choice is prose, a JSON
\* object, a JSON array or null
AiOutcomes ==
  { "no_api_key", "connection_error", "http_error", "malformed_body",
    "prose", "object", "array", "null_content" }

\* _make_request: the text returned, by its kind; "mock" is the text of
\* _get_mock_response, a JSON object
MakeRequest(outcome) ==
  IF outcome \in {"no_api_key", "connection_error", "http_error", "malformed_body"}
    THEN "mock"
  ELSE outcome

\* analyze_campaign_performance: json.loads of the text of _make_request,
\* the text wrapped into a mapping on JSONDecodeError; json.loads(None)
\* raises TypeError
AnalyzeCampaignPerformance(outcome) ==
  IF MakeRequest(outcome) = "null_content"
    THEN [status |-> "raised", error |-> "TypeError"]
  ELSE IF MakeRequest(outcome) = "prose"
    THEN [status |-> "returned", mapping |-> TRUE, source |-> "wrapped"]
  ELSE [ status  |-> "returned",
         mapping |-> MakeRequest(outcome) \in {"mock", "object"},
         source  |-> IF MakeRequest(outcome) = "mock" THEN "mock" ELSE "model" ]

----------------------------------------------------------------------------
(* A report whose file is processed again *)

MaxProcessings == 2

\* _process_sponsored_products_campaign once more on the same file for the
\* same report: its rows are added to those already stored
ProcessAgain ==
  /\ result # NotRun
  /\ analytics = NotRun
  /\ IF ProcessRaises(file) THEN campaign_data = <<>>
     ELSE Len(campaign_data) < MaxProcessings * Len(ExtractedRecords(file, Today))
  /\ result' = IF ProcessRaises(file) THEN Raised
               ELSE ProcessResult(ExtractedRecords(file, Today))
  /\ campaign_data' = campaign_data \o StoredRecords(file, Today)
  /\ UNCHANGED <<file, report_type, row, record, analytics, analytics_log, report, response, comparisons, raw, number, date_input, parsed_date, recommendations, ai_call>>

MaxRerunRows == 2

NextRerun ==
  \/ \E cells \in ReportLines : AppendRow(cells, MaxRerunRows)
  \/ ProcessSponsoredProductsCampaign
  \/ ProcessAgain
  \/ Analytics

SpecRerun == Init /\ [][NextRerun]_vars

----------------------------------------------------------------------------
(* process_report and the upload route *)

\* the spellings _extract_search_term_data reads spend and sales from
search_term_mappings ==
  [ spend |-> << <<"s","p","e","n","d">>, <<"c","o","s","t">> >>,
    sales |-> << <<"s","a","l","e","s">>, <<"a","t","t","r","i","b","u","t","e","d"," ","s","a","l","e","s"," ","7","d">>, <<"a","t","t","r","i","b","u","t","e","d"," ","s","a","l","e","s"," ","1","4","d">>, <<"a","t","t","r","i","b","u","t","e","d"," ","s","a","l","e","s"," ","3","0","d">> >> ]

\* what the loop of _process_search_term_report reads from every row of the
\* file: the extractor never returns None, nothing is added to the session
SearchTermData(f) ==
  LET rows == DataRows(f)
      keys == NormaliseHeader(f.header)
  IN  List([i \in 1..Len(rows) |->
        LET r == NormaliseRow(keys, rows[i])
        IN  [ spend |-> ParseNumber(MappedValue(r, search_term_mappings.spend)),
              sales |-> ParseNumber(MappedValue(r, search_term_mappings.sales)) ]])

\* the value _process_search_term_report returns
SearchTermResult(data) ==
  LET total_spend == SumOf(data, "spend")
      total_sales == SumOf(data, "sales")
  IN  [ status                 |-> "returned",
        search_terms_processed |-> Len(data),
        total_spend            |-> total_spend,
        total_sales            |-> total_sales,
        acos                   |-> PercentOf(total_spend, total_sales) ]

\* whether _process_sponsored_products_keyword raises on the file: as the
\* campaign processor does, and at the commit whenever a row was added, for
\* every KeywordData row is built with keyword_id None and the column is
\* NOT NULL
KeywordProcessRaises(f) == ProcessRaises(f) \/ DataRows(f) # <<>>

\* the value _process_sponsored_products_keyword returns (no row was added)
KeywordResult ==
  [ status             |-> "returned",
    keywords_processed |-> 0,
    total_spend        |-> Zero,
    total_sales        |-> Zero,
    total_impressions  |-> Zero,
    total_clicks       |-> Zero,
    acos               |-> PercentOf(Zero, Zero) ]

\* the processor supported_formats holds for every report type
ProcessorOf ==
  ("sponsored_products_campaign" :> "campaign")
    @@ ("sponsored_products_keyword" :> "keyword")
    @@ ("sponsored_brands_campaign" :> "campaign")
    @@ ("sponsored_brands_keyword" :> "keyword")
    @@ ("sponsored_display_campaign" :> "campaign")
    @@ ("search_term" :> "search_term")

\* the CampaignData rows the campaign processor adds for the records
CampaignRows(recs) == List([i \in 1..Len(recs) |-> ToCampaignData(recs[i])])

\* an exception of process_report; reason tells the messages apart
Failed(reason) == [status |-> "raised", reason |-> reason]

\* process_report: result is the dictionary returned (status "returned") or
\* the exception raised, stored the CampaignData rows committed
ProcessReport(f, today) ==
  LET type == DetectReportType(f)
  IN  IF type \notin supported_formats
        THEN [result |-> Failed("Unsupported report type"), stored |-> <<>>]
      ELSE IF ProcessorOf[type] = "campaign"
        THEN IF ProcessRaises(f)
               THEN [result |-> Failed("Error processing campaign data"),
                     stored |-> <<>>]
               ELSE [result |-> ("report_type" :> type)
                                  @@ ProcessResult(ExtractedRecords(f, today)),
                     stored |-> CampaignRows(ExtractedRecords(f, today))]
      ELSE IF ProcessorOf[type] = "keyword"
        THEN IF KeywordProcessRaises(f)
               THEN [result |-> Failed("Error processing keyword data"),
                     stored |-> <<>>]
               ELSE [result |-> ("report_type" :> type) @@ KeywordResult,
                     stored |-> <<>>]
      ELSE IF ProcessRaises(f)
        THEN [result |-> Failed("Error processing search term data"),
              stored |-> <<>>]
      ELSE [result |-> ("report_type" :> type) @@ SearchTermResult(SearchTermData(f)),
            stored |-> <<>>]

ALLOWED_EXTENSIONS == { <<"c","s","v">>, <<"x","l","s","x">>, <<"x","l","s">> }

\* filename.rsplit('.', 1)[1] for a name with a dot
Extension(filename) ==
  LET parts == Split(filename, ".") IN parts[Len(parts)]

allowed_file(filename) ==
  /\ \E i \in 1..Len(filename) : filename[i] = "."
  /\ Lower(Extension(filename)) \in ALLOWED_EXTENSIONS

\* "_".join(s.split()): blanks at the ends dropped, every run of blanks
\* inside replaced by one underscore
RECURSIVE JoinWords(_)
JoinWords(s) ==
  LET t == Strip(s)
      c == PrefixLen(t, " ")
  IN  IF c = Len(t) THEN t
      ELSE SubSeq(t, 1, c) \o <<"_">> \o JoinWords(SubSeq(t, c + 2, Len(t)))

\* str.strip("._")
RECURSIVE StripDots(_)
StripDots(s) ==
  IF s # <<>> /\ Head(s) \in {".", "_"} THEN StripDots(Tail(s))
  ELSE IF s # <<>> /\ s[Len(s)] \in {".", "_"}
    THEN StripDots(SubSeq(s, 1, Len(s) - 1))
  ELSE s

\* secure_filename: path separators become blanks, words are joined by
\* underscores, every character but letters, digits, "_", "." and "-" is
\* removed, and dots and underscores at the ends are stripped
secure_filename(filename) ==
  LET spaced == List([i \in 1..Len(filename) |->
                        IF filename[i] = "/" THEN " " ELSE filename[i]])
      safe(c) == \/ c \in DOMAIN LowerOf
                 \/ c \in {LowerOf[u] : u \in DOMAIN LowerOf}
                 \/ c \in DOMAIN ValueOf
                 \/ c \in {"_", ".", "-"}
  IN  StripDots(SelectSeq(JoinWords(spaced), safe))

UPLOAD_FOLDER == <<"u","p","l","o","a","d","s">>

\* datetime.now().strftime('%Y%m%d_%H%M%S') at the time of the upload
Timestamp == <<"2","0","2","4","0","6","1","5","_","1","2","0","0","0","0">>

\* result.get(key, default)
Get(d, key, default) == IF key \in DOMAIN d THEN d[key] ELSE default

\* the response of upload_report for a file that was refused
Refused(message) == [route |-> "upload", code |-> 400, error |-> message]

\* the response of upload_report after process_report raised
UploadError(reason) ==
  [route |-> "upload", code |-> 500, error |-> "Error processing report", reason |-> reason]

\* the response of upload_report after process_report returned res
UploadSuccess(res) ==
  [ route   |-> "upload",
    code    |-> 200,
    success |-> TRUE,
    message |-> "Report uploaded and processed successfully",
    summary |-> [ report_type         |-> Get(res, "report_type", ""),
                  date_range_start    |-> Get(res, "date_range_start", None),
                  date_range_end      |-> Get(res, "date_range_end", None),
                  total_spend         |-> Get(res, "total_spend", Zero),
                  total_sales         |-> Get(res, "total_sales", Zero),
                  campaigns_processed |-> Get(res, "campaigns_processed", 0),
                  keywords_processed  |-> Get(res, "keywords_processed", 0) ] ]

\* the Report row upload_report leaves after process_report returned res
CompletedReport(filename, res) ==
  [ filename          |-> filename,
    processing_status |-> "completed",
    processed         |-> TRUE,
    file_type         |-> Get(res, "report_type", "unknown"),
    date_range_start  |-> Get(res, "date_range_start", None),
    date_range_end    |-> Get(res, "date_range_end", None),
    total_spend       |-> Get(res, "total_spend", Zero),
    total_sales       |-> Get(res, "total_sales", Zero),
    total_impressions |-> Get(res, "total_impressions", Zero),
    total_clicks      |-> Get(res, "total_clicks", Zero) ]

\* the Report row upload_report leaves after process_report raised
ErrorReport(filename, reason) ==
  [ filename          |-> filename,
    processing_status |-> "error",
    processed         |-> FALSE,
    file_type         |-> "unknown",
    error_message     |-> reason ]

\* the 400 response every consumer of get_report_analytics returns when
\* the analytics carry an 'error' entry
NoAnalytics(route, a) == [route |-> route, code |-> 400, error |-> a.error]

\* the response of get_campaign_analysis for the analytics a
CampaignAnalysisResponseUnguarded(a) ==
  [ route              |-> "get_campaign_analysis",
    code               |-> 200,
    campaign_analysis  |-> Get(a, "campaign_analysis", AnalyzeCampaigns(<<>>)),
    efficiency_metrics |-> Get(a, "efficiency_metrics", <<>>) ]

\* the response of get_campaign_analysis for the analytics a
CampaignAnalysisResponse(a) ==
  IF a.status = "error" THEN NoAnalytics("get_campaign_analysis", a)
  ELSE [ route              |-> "get_campaign_analysis",
         code               |-> 200,
         campaign_analysis  |-> a.campaign_analysis,
         efficiency_metrics |-> a.efficiency_metrics ]

\* the response of get_trend_analysis for the analytics a
TrendAnalysisResponse(a) ==
  IF a.status = "error" THEN NoAnalytics("get_trend_analysis", a)
  ELSE [ route               |-> "get_trend_analysis",
         code                |-> 200,
         trend_analysis      |-> a.trend_analysis,
         performance_summary |-> a.performance_summary ]

\* _get_campaign_specific_recommendations
GetCampaignSpecificRecommendations(c) ==
  LET entry(applies, type, priority) ==
        IF applies THEN << [type |-> type, priority |-> priority] >> ELSE <<>>
  IN  entry(RatLess(Int2Rat(50), c.acos), "reduce_bids", "high")
        \o entry(RatLess(c.ctr, Rat(1, 2)), "improve_targeting", "medium")
        \o entry(RatLess(Int2Rat(3), c.roas), "scale_campaign", "high")

\* a priority whose spend marks are reached at 500 and 1000 themselves
CalculateCampaignPriorityInclusive(c) ==
  LET spend_part == IF RatLeq(Int2Rat(1000), c.total_spend) THEN 2
                    ELSE IF RatLeq(Int2Rat(500), c.total_spend) THEN 1 ELSE 0
      acos_part  == IF RatLess(Int2Rat(60), c.acos) THEN 3
                    ELSE IF RatLess(Int2Rat(40), c.acos) THEN 2
                    ELSE IF RatLess(Int2Rat(30), c.acos) THEN 1 ELSE 0
      roas_part  == IF RatLess(Int2Rat(4), c.roas) THEN 2
                    ELSE IF RatLess(Int2Rat(3), c.roas) THEN 1 ELSE 0
      priority   == 5 + spend_part + acos_part + roas_part
  IN  IF priority < 10 THEN priority ELSE 10

\* _calculate_campaign_priority
CalculateCampaignPriority(c) ==
  LET spend_part == IF RatLess(Int2Rat(1000), c.total_spend) THEN 2
                    ELSE IF RatLess(Int2Rat(500), c.total_spend) THEN 1 ELSE 0
      acos_part  == IF RatLess(Int2Rat(60), c.acos) THEN 3
                    ELSE IF RatLess(Int2Rat(40), c.acos) THEN 2
                    ELSE IF RatLess(Int2Rat(30), c.acos) THEN 1 ELSE 0
      roas_part  == IF RatLess(Int2Rat(4), c.roas) THEN 2
                    ELSE IF RatLess(Int2Rat(3), c.roas) THEN 1 ELSE 0
      priority   == 5 + spend_part + acos_part + roas_part
  IN  IF priority < 10 THEN priority ELSE 10

\* list.sort(key=priority, reverse=True), one insertion: the sort is stable,
\* an item goes behind the items of equal priority that came before it
RECURSIVE InsertByPriority(_, _)
InsertByPriority(sorted, item) ==
  IF sorted = <<>> THEN <<item>>
  ELSE IF Head(sorted).priority < item.priority THEN <<item>> \o sorted
  ELSE <<Head(sorted)>> \o InsertByPriority(Tail(sorted), item)

RECURSIVE SortedByPriority(_)
SortedByPriority(items) ==
  IF items = <<>> THEN <<>>
  ELSE InsertByPriority(SortedByPriority(SubSeq(items, 1, Len(items) - 1)),
                        items[Len(items)])

\* the entry get_campaign_optimization builds for one campaign
CampaignOptimization(c) ==
  [ campaign_id     |-> c.campaign_id,
    campaign_name   |-> c.name,
    current_metrics |-> [ acos |-> c.acos, roas |-> c.roas, ctr |-> c.ctr,
                          cpc |-> c.cpc, spend |-> c.total_spend,
                          sales |-> c.total_sales ],
    recommendations |-> GetCampaignSpecificRecommendations(c),
    priority        |-> CalculateCampaignPriority(c) ]

\* how many items satisfy the test
CountOf(items, Test(_)) == Len(SelectSeq(items, Test))

\* a response of get_campaign_optimization whose summary counts the
\* priorities below 6 as low
CampaignOptimizationResponseLowBelowSix(a) ==
  IF a.status = "error" THEN NoAnalytics("get_campaign_optimization", a)
  ELSE LET details == a.campaign_analysis.campaign_details
           campaign_optimizations ==
             SortedByPriority(List([k \in 1..Len(details) |->
                                      CampaignOptimization(details[k])]))
       IN  [ route   |-> "get_campaign_optimization",
             code    |-> 200,
             campaign_optimizations |-> campaign_optimizations,
             summary |->
               [ total_campaigns |-> Len(campaign_optimizations),
                 high_priority   |-> CountOf(campaign_optimizations,
                                             LAMBDA o : o.priority > 7),
                 medium_priority |-> CountOf(campaign_optimizations,
                                             LAMBDA o : 4 <= o.priority /\ o.priority <= 7),
                 low_priority    |-> CountOf(campaign_optimizations,
                                             LAMBDA o : o.priority < 6) ] ]

\* the response of get_campaign_optimization for the analytics a
CampaignOptimizationResponse(a) ==
  IF a.status = "error" THEN NoAnalytics("get_campaign_optimization", a)
  ELSE LET details == a.campaign_analysis.campaign_details
           campaign_optimizations ==
             SortedByPriority(List([k \in 1..Len(details) |->
                                      CampaignOptimization(details[k])]))
       IN  [ route   |-> "get_campaign_optimization",
             code    |-> 200,
             campaign_optimizations |-> campaign_optimizations,
             summary |->
               [ total_campaigns |-> Len(campaign_optimizations),
                 high_priority   |-> CountOf(campaign_optimizations,
                                             LAMBDA o : o.priority > 7),
                 medium_priority |-> CountOf(campaign_optimizations,
                                             LAMBDA o : 4 <= o.priority /\ o.priority <= 7),
                 low_priority    |-> CountOf(campaign_optimizations,
                                             LAMBDA o : o.priority < 4) ] ]

\* _generate_campaign_recommendations
GenerateCampaignRecommendations(campaign_analysis) ==
  LET winners == Truncate(campaign_analysis.top_performers, 3)
      losers  == SelectSeq(Truncate(campaign_analysis.worst_performers, 3),
                           LAMBDA c : RatLess(Int2Rat(50), c.acos))
  IN  List([k \in 1..Len(winners) |->
              [ campaign_id |-> winners[k].campaign_id,
                campaign_name |-> winners[k].name,
                type |-> "scale_winner", priority |-> "high" ]])
        \o List([k \in 1..Len(losers) |->
              [ campaign_id |-> losers[k].campaign_id,
                campaign_name |-> losers[k].name,
                type |-> "optimize_or_pause", priority |-> "high" ]])

\* _generate_bid_recommendation: None, or the recommendation for the
\* campaign (the dict of a campaign has no 'campaign_id' key)
GenerateBidRecommendation(c) ==
  LET rec(action, percentage) ==
        Some([ campaign_id |-> "unknown", campaign_name |-> c.name,
               action |-> action, percentage |-> percentage,
               current_metrics |-> [acos |-> c.acos, roas |-> c.roas, ctr |-> c.ctr] ])
  IN  IF RatLess(Int2Rat(3), c.roas) /\ RatLess(c.acos, Int2Rat(30))
        THEN rec("increase", 15)
      ELSE IF RatLess(Int2Rat(50), c.acos)
        THEN rec("decrease", 25)
      ELSE IF RatLeq(Int2Rat(30), c.acos) /\ RatLeq(c.acos, Int2Rat(50))
              /\ RatLeq(Int2Rat(2), c.roas)
        THEN rec("maintain", 0)
      ELSE None

\* _generate_bid_recommendations
GenerateBidRecommendations(campaign_analysis) ==
  LET details == campaign_analysis.campaign_details
  IN  Flatten(List([k \in 1..Len(details) |-> GenerateBidRecommendation(details[k])]))

\* _generate_budget_recommendations
GenerateBudgetRecommendations(campaign_analysis) ==
  LET raise == SelectSeq(Truncate(campaign_analysis.top_performers, 5),
                         LAMBDA c : RatLess(Rat(5, 2), c.roas))
      cut   == SelectSeq(Truncate(campaign_analysis.worst_performers, 3),
                         LAMBDA c : RatLess(Int2Rat(60), c.acos))
  IN  List([k \in 1..Len(raise) |->
              [ campaign_id |-> raise[k].campaign_id,
                campaign_name |-> raise[k].name,
                action |-> "increase_budget", percentage |-> 30,
                current_spend |-> raise[k].total_spend ]])
        \o List([k \in 1..Len(cut) |->
              [ campaign_id |-> cut[k].campaign_id,
                campaign_name |-> cut[k].name,
                action |-> "decrease_budget", percentage |-> 50,
                current_spend |-> cut[k].total_spend ]])

\* the rule-based entries of optimization_data, which
\* get_optimization_recommendations computes for the analytics a before it
\* calls the language model service
OptimizationData(a) ==
  [ current_performance      |-> a.performance_summary,
    campaign_recommendations |-> GenerateCampaignRecommendations(a.campaign_analysis),
    bid_recommendations      |-> GenerateBidRecommendations(a.campaign_analysis),
    budget_recommendations   |-> GenerateBudgetRecommendations(a.campaign_analysis) ]

\* the response of get_optimization_recommendations for the analytics a:
\* the handler calls generate_optimization_recommendations with three
\* arguments, and every exception becomes a 500
OptimizationResponse(a) ==
  IF a.status = "error" THEN NoAnalytics("get_optimization_recommendations", a)
  ELSE IF CallRaises("generate_optimization_recommendations", 3, 0)
    THEN [ route |-> "get_optimization_recommendations", code |-> 500,
           error |-> "Failed to generate optimization recommendations" ]
  ELSE [route |-> "get_optimization_recommendations", code |-> 200]
         @@ OptimizationData(a)

\* the names a client uploads a file under
UploadNames ==
  { <<>>,
    <<"n","o","t","e","s",".","t","x","t">>,
    <<"w","e","i","r","d"," ","e","x","p","o","r","t",".","c","s","v">>,
    <<"s","p","o","n","s","o","r","e","d"," ","p","r","o","d","u","c","t","s"," ","c","a","m","p","a","i","g","n",".","c","s","v">>,
    <<"S","p","o","n","s","o","r","e","d","_","P","r","o","d","u","c","t","s","_","K","e","y","w","o","r","d",".","c","s","v">>,
    <<"s","e","a","r","c","h","-","t","e","r","m",".","C","S","V">>,
    <<"r","e","p","o","r","t",".","x","l","s","x">> }

\* a header no report type is detected from
GenericHeader == << <<"C","a","m","p","a","i","g","n">>, <<"V","a","l","u","e">> >>

\* the header row of a keyword report
KeywordHeader ==
  << <<"C","a","m","p","a","i","g","n"," ","N","a","m","e">>, <<"I","m","p","r","e","s","s","i","o","n","s">>, <<"K","e","y","w","o","r","d">>, <<"C","o","s","t">>, <<"S","a","l","e","s">> >>

\* the lines an uploaded file is written from: a campaign row, a row without
\* campaign name, a row under the generic header, a keyword row
UploadLines ==
  { << <<"c","1">>, <<"B","o","o","k"," ","A">>, <<"2","0","2","4","-","0","3","-","0","1">>, <<"5","0","0">>, <<"1","0">>, <<"3","0">>, <<"1","0","0">>, <<"4">> >>,
    << <<"c","3">>, <<>>, <<"2","0","2","4","-","0","3","-","0","1">>, <<"1","0","0">>, <<"1">>, <<"5">>, <<"1","0">>, <<"1">> >>,
    << <<"x">>, <<"1">> >>,
    << <<"B","o","o","k"," ","A">>, <<"1","0","0">>, <<"k","w">>, <<"5">>, <<"2","0">> >> }

MaxUploadRows == 2

\* a client holds a file: a text file with a header row, or a file that
\* cannot be read as utf-8 text
InitUpload ==
  /\ \E name \in UploadNames :
       \/ \E h \in {CampaignHeader, GenericHeader, KeywordHeader} :
            file = [path |-> name, readable |-> TRUE, header |-> h, rows |-> <<>>]
       \/ file = [path |-> name, readable |-> FALSE, header |-> <<>>, rows |-> <<>>]
  /\ report_type = ""
  /\ row = NoRow
  /\ record = NotExtracted
  /\ campaign_data = <<>>
  /\ result = NotRun
  /\ analytics = NotRun
  /\ RoutesIdle
  /\ ParserIdle

\* upload_report: the file is refused, or saved under uploads/ and handed
\* to process_report, whose outcome is written to the Report row
UploadReport ==
  /\ result = NotRun
  /\ response = NoResponse
  /\ IF file.path = <<>>
       THEN /\ response' = Refused("No file selected")
            /\ UNCHANGED <<report_type, campaign_data, result, report>>
     ELSE IF ~allowed_file(file.path)
       THEN /\ response' = Refused("Invalid file type")
            /\ UNCHANGED <<report_type, campaign_data, result, report>>
     ELSE LET unique_filename == Timestamp \o <<"_">> \o secure_filename(file.path)
              file_path == UPLOAD_FOLDER \o <<"/">> \o unique_filename
              saved == [file EXCEPT !.path = file_path]
              out == ProcessReport(saved, Today)
          IN  /\ result' = out.result
              /\ campaign_data' = campaign_data \o out.stored
              /\ report_type' = DetectReportType(saved)
              /\ IF out.result.status = "raised"
                   THEN /\ report' = ErrorReport(unique_filename, out.result.reason)
                        /\ response' = UploadError(out.result.reason)
                   ELSE /\ report' = CompletedReport(unique_filename, out.result)
                        /\ response' = UploadSuccess(out.result)
  /\ UNCHANGED <<file, row, record, analytics, analytics_log, comparisons, raw, number, date_input, parsed_date, recommendations, ai_call>>

\* get_campaign_analysis: it calls get_report_analytics for the uploaded report and
\* answers with what that returned
GetCampaignAnalysis ==
  /\ report # NoReport
  /\ Len(analytics_log) < MaxRuns
  /\ analytics' = GetReportAnalytics(campaign_data)
  /\ analytics_log' = Append(analytics_log, analytics')
  /\ response' = CampaignAnalysisResponse(analytics')
  /\ UNCHANGED <<file, report_type, row, record, campaign_data, result, report, comparisons, raw, number, date_input, parsed_date, recommendations, ai_call>>

\* get_trend_analysis: it calls get_report_analytics for the uploaded report and
\* answers with what that returned
GetTrendAnalysis ==
  /\ report # NoReport
  /\ Len(analytics_log) < MaxRuns
  /\ analytics' = GetReportAnalytics(campaign_data)
  /\ analytics_log' = Append(analytics_log, analytics')
  /\ response' = TrendAnalysisResponse(analytics')
  /\ UNCHANGED <<file, report_type, row, record, campaign_data, result, report, comparisons, raw, number, date_input, parsed_date, recommendations, ai_call>>

\* get_campaign_optimization: it calls get_report_analytics for the uploaded report and
\* answers with what that returned
GetCampaignOptimization ==
  /\ report # NoReport
  /\ Len(analytics_log) < MaxRuns
  /\ analytics' = GetReportAnalytics(campaign_data)
  /\ analytics_log' = Append(analytics_log, analytics')
  /\ response' = CampaignOptimizationResponse(analytics')
  /\ UNCHANGED <<file, report_type, row, record, campaign_data, result, report, comparisons, raw, number, date_input, parsed_date, recommendations, ai_call>>

NextUpload ==
  \/ \E cells \in UploadLines : AppendRow(cells, MaxUploadRows)
  \/ UploadReport
  \/ GetCampaignAnalysis
  \/ GetTrendAnalysis
  \/ GetCampaignOptimization

SpecUpload == InitUpload /\ [][NextUpload]_vars

\* get_optimization_recommendations: it calls get_report_analytics for the
\* uploaded report and answers with what that returned
GetOptimizationRecommendations ==
  /\ report # NoReport
  /\ Len(analytics_log) < MaxRuns
  /\ analytics' = GetReportAnalytics(campaign_data)
  /\ analytics_log' = Append(analytics_log, analytics')
  /\ response' = OptimizationResponse(analytics')
  /\ recommendations' = IF analytics'.status = "error" THEN None
                        ELSE Some(OptimizationData(analytics'))
  /\ UNCHANGED <<file, report_type, row, record, campaign_data, result, report, comparisons, raw, number, date_input, parsed_date, ai_call>>

\* the metric profiles of the lines of an optimization report: spend and
\* sales on, below and above the marks of the recommendation rules
OptimizeProfiles ==
  { [spend |-> <<"6">>, sales |-> <<"1","0">>],
    [spend |-> <<"1","0","0">>, sales |-> <<"1","5","0">>],
    [spend |-> <<"1","2","0","0">>, sales |-> <<"6","0","0","0">>],
    [spend |-> <<"5","0","0">>, sales |-> <<"1","2","5","0">>],
    [spend |-> <<"7","0","0">>, sales |-> <<"2","0","0","0">>],
    [spend |-> <<"1","0">>, sales |-> <<"4","0">>] }

MaxOptimizeRows == 3

\* a campaign report under a name the detector knows, still without lines
InitOptimize ==
  /\ file = [ path |-> <<"s","p","o","n","s","o","r","e","d","_","p","r","o","d","u","c","t","s","_","c","a","m","p","a","i","g","n",".","c","s","v">>,
              readable |-> TRUE, header |-> CampaignHeader, rows |-> <<>> ]
  /\ report_type = ""
  /\ row = NoRow
  /\ record = NotExtracted
  /\ campaign_data = <<>>
  /\ result = NotRun
  /\ analytics = NotRun
  /\ RoutesIdle
  /\ ParserIdle

\* an optimization report: one line per campaign, uploaded, then read by
\* the optimization handlers
NextOptimize ==
  \/ \E profile \in OptimizeProfiles :
       AppendRow(RankLine(Len(file.rows) + 1, profile), MaxOptimizeRows)
  \/ UploadReport
  \/ GetCampaignOptimization
  \/ GetOptimizationRecommendations

SpecOptimize == InitOptimize /\ [][NextOptimize]_vars

----------------------------------------------------------------------------
(* The handlers that call the language model service *)

\* the response of get_analysis for the analytics a: the handler calls
\* llm_service.analyze_performance with three arguments
GetAnalysisResponse(a) ==
  IF a.status = "error" THEN NoAnalytics("get_analysis", a)
  ELSE IF CallRaises("analyze_performance", 3, 0)
    THEN [route |-> "get_analysis", code |-> 500, error |-> "Failed to generate analysis"]
  ELSE [ route               |-> "get_analysis",
         code                |-> 200,
         performance_summary |-> a.performance_summary,
         campaign_analysis   |-> a.campaign_analysis,
         trend_analysis      |-> a.trend_analysis,
         efficiency_metrics  |-> a.efficiency_metrics,
         recommendations     |-> a.recommendations ]

\* get_analysis: it calls get_report_analytics for the uploaded report, then
\* the language model service
GetAnalysis ==
  /\ report # NoReport
  /\ Len(analytics_log) < MaxRuns
  /\ analytics' = GetReportAnalytics(campaign_data)
  /\ analytics_log' = Append(analytics_log, analytics')
  /\ response' = GetAnalysisResponse(analytics')
  /\ UNCHANGED <<file, report_type, row, record, campaign_data, result, report, comparisons, raw, number, date_input, parsed_date, recommendations, ai_call>>

\* the response of get_report_summary once the report is processed and has
\* rows, for the summary analyze_campaign_performance gave
ReportSummaryResponse(summary) ==
  IF summary.status = "raised"
    THEN [ route |-> "get_report_summary", code |-> 500,
           error |-> "Failed to generate report summary" ]
  ELSE [route |-> "get_report_summary", code |-> 200, summary |-> summary]

\* get_report_summary for the uploaded report; outcome is how the request
\* to the OpenRouter API ends
GetReportSummary(outcome) ==
  /\ report # NoReport
  /\ ai_call = "none"
  /\ IF ~report.processed
       THEN /\ response' = [ route |-> "get_report_summary", code |-> 400,
                             error |-> "Report is not yet processed" ]
            /\ UNCHANGED ai_call
     ELSE IF campaign_data = <<>>
       THEN /\ response' = [ route |-> "get_report_summary", code |-> 404,
                             error |-> "No campaign data found for this report" ]
            /\ UNCHANGED ai_call
     ELSE /\ response' = ReportSummaryResponse(AnalyzeCampaignPerformance(outcome))
          /\ ai_call' = outcome
  /\ UNCHANGED <<file, report_type, row, record, campaign_data, result, analytics, analytics_log, report, comparisons, raw, number, date_input, parsed_date, recommendations>>

MaxInsightRows == 2

\* a campaign report is written, uploaded, and read by the handlers that
\* ask the language model service
NextInsights ==
  \/ \E profile \in OptimizeProfiles :
       AppendRow(RankLine(Len(file.rows) + 1, profile), MaxInsightRows)
  \/ UploadReport
  \/ GetAnalysis
  \/ \E outcome \in AiOutcomes : GetReportSummary(outcome)

SpecInsights == InitOptimize /\ [][NextInsights]_vars

----------------------------------------------------------------------------
(* The recommendation engine over the campaign_data table *)

\* round(x, 2): the nearest hundredth, a half going to the even one
Round2(x) ==
  LET scaled == x.n * 100
      q      == scaled \div x.d
      twice  == 2 * (scaled - q * x.d)
  IN  Rat(IF twice < x.d THEN q
          ELSE IF twice > x.d THEN q + 1
          ELSE IF q % 2 = 0 THEN q ELSE q + 1, 100)

\* cpc = (spend / clicks) if clicks > 0 else 0
CpcOf(c) == RatioOf(c.cost, c.clicks)

\* the 'High ACOS' entry of a campaign, if it gets one
HighAcosEntry(c) ==
  IF RatLess(Int2Rat(50), c.acos) /\ RatLess(Int2Rat(10), c.cost)
    THEN << [ campaign          |-> c.campaign_name,
              issue             |-> "High ACOS",
              current_acos      |-> c.acos,
              recommendation    |-> "Reduce bids by 20-30% or pause underperforming keywords",
              priority          |-> "High",
              potential_savings |-> RatMul(c.cost, Rat(3, 10)) ] >>
    ELSE <<>>

\* the 'Low Impressions' entry of a campaign, if it gets one
LowImpressionsEntry(c) ==
  IF RatLess(c.impressions, Int2Rat(1000)) /\ RatLess(Int2Rat(5), c.cost)
    THEN << [ campaign            |-> c.campaign_name,
              issue               |-> "Low Impressions",
              current_impressions |-> c.impressions,
              recommendation      |-> "Increase bids by 15-25% or expand keyword targeting",
              priority            |-> "Medium",
              potential_revenue_increase |-> RatMul(c.sales, Rat(1, 5)) ] >>
    ELSE <<>>

\* the scaling opportunity of a campaign, if it is one
ScalingEntry(c) ==
  IF RatLess(c.acos, Int2Rat(30)) /\ RatLess(Int2Rat(100), c.sales)
    THEN << [ campaign       |-> c.campaign_name,
              current_acos   |-> c.acos,
              current_sales  |-> c.sales,
              recommendation |-> "Scale up: Increase budget by 50-100%",
              priority       |-> "High",
              potential_revenue_increase |-> RatMul(c.sales, Rat(1, 2)) ] >>
    ELSE <<>>

\* a bid adjustment whose marks are reached at 2.00 and 0.50 themselves
BidAdjustmentInclusive(c) ==
  IF RatLeq(Int2Rat(2), CpcOf(c))
    THEN << [ campaign       |-> c.campaign_name,
              current_cpc    |-> Round2(CpcOf(c)),
              recommendation |-> "Reduce bids by 15-20%",
              reason         |-> "High cost per click" ] >>
  ELSE IF RatLeq(CpcOf(c), Rat(1, 2)) /\ RatLess(c.impressions, Int2Rat(5000))
    THEN << [ campaign       |-> c.campaign_name,
              current_cpc    |-> Round2(CpcOf(c)),
              recommendation |-> "Increase bids by 20-30%",
              reason         |-> "Low cost per click with low impressions" ] >>
  ELSE <<>>

\* the bid adjustment of a campaign, if it gets one
BidAdjustment(c) ==
  IF RatLess(Int2Rat(2), CpcOf(c))
    THEN << [ campaign       |-> c.campaign_name,
              current_cpc    |-> Round2(CpcOf(c)),
              recommendation |-> "Reduce bids by 15-20%",
              reason         |-> "High cost per click" ] >>
  ELSE IF RatLess(CpcOf(c), Rat(1, 2)) /\ RatLess(c.impressions, Int2Rat(5000))
    THEN << [ campaign       |-> c.campaign_name,
              current_cpc    |-> Round2(CpcOf(c)),
              recommendation |-> "Increase bids by 20-30%",
              reason         |-> "Low cost per click with low impressions" ] >>
  ELSE <<>>

\* the budget recommendations: the high performers, then the low performers
BudgetRecommendations(campaigns) ==
  LET high_performers ==
        SelectSeq(campaigns, LAMBDA c : RatLess(c.acos, Int2Rat(30))
                                          /\ RatLess(Int2Rat(50), c.sales))
      low_performers ==
        SelectSeq(campaigns, LAMBDA c : RatLess(Int2Rat(60), c.acos))
  IN  List([k \in 1..Len(high_performers) |->
              [ campaign |-> high_performers[k].campaign_name,
                action   |-> "Increase Budget",
                recommended_increase |-> "50-100%",
                reason   |-> "High performance, low ACOS" ]])
        \o List([k \in 1..Len(low_performers) |->
              [ campaign |-> low_performers[k].campaign_name,
                action   |-> "Reduce Budget",
                recommended_decrease |-> "30-50%",
                reason   |-> "Poor performance, high ACOS" ]])

\* the entries of one kind for all campaigns, in the order of the campaigns
EntriesOf(campaigns, Entry(_)) ==
  Flatten(List([k \in 1..Len(campaigns) |-> Entry(campaigns[k])]))

\* A row of the campaign_data table is a record of the columns that hold a
\* value; nulls names the columns that hold NULL, and a column in neither
\* is missing from the row.
NullColumns(c) == IF "nulls" \in DOMAIN c THEN c.nulls ELSE {}

\* float(campaign.get(key, 0)) if campaign.get(key) else 0
LoopValue(c, key) == IF key \in DOMAIN c THEN c[key] ELSE Zero

\* the values the loop over the campaigns reads from a row
LoopRow(c) ==
  [ campaign_name |-> c.campaign_name,
    acos          |-> LoopValue(c, "acos"),
    cost          |-> LoopValue(c, "cost"),
    sales         |-> LoopValue(c, "sales"),
    impressions   |-> LoopValue(c, "impressions"),
    clicks        |-> LoopValue(c, "clicks") ]

\* the values the budget rules read from a row: c.get('acos', 100) and
\* c.get('sales', 0)
BudgetRow(c) ==
  [ campaign_name |-> c.campaign_name,
    acos          |-> IF "acos" \in DOMAIN c THEN c.acos ELSE Int2Rat(100),
    sales         |-> IF "sales" \in DOMAIN c THEN c.sales ELSE Zero ]

\* whether the statements after the loop raise: float(None) is a TypeError,
\* in the sum of the costs, in the acos of a row, and in its sales when its
\* acos is below 30
BudgetRulesRaise(campaigns) ==
  \E k \in 1..Len(campaigns) :
     \/ "cost" \in NullColumns(campaigns[k])
     \/ "acos" \in NullColumns(campaigns[k])
     \/ /\ "sales" \in NullColumns(campaigns[k])
        /\ RatLess(BudgetRow(campaigns[k]).acos, Int2Rat(30))

\* what the except branch of _generate_comprehensive_recommendations returns
FailedRecommendations(campaigns) ==
  [ summary |-> [ error                 |-> "Failed to generate recommendations",
                  total_campaigns       |-> Len(campaigns),
                  recommendations_count |-> 0 ],
    campaign_recommendations |-> <<>>,
    bid_adjustments          |-> <<>>,
    budget_recommendations   |-> <<>>,
    negative_keywords        |-> <<>>,
    scaling_opportunities    |-> <<>> ]

\* _generate_comprehensive_recommendations with a recommendations_count
\* that counts the bid adjustments as well
GenerateComprehensiveRecommendationsCountingAll(campaigns) ==
  IF BudgetRulesRaise(campaigns) THEN FailedRecommendations(campaigns)
  ELSE LET rows    == List([k \in 1..Len(campaigns) |-> LoopRow(campaigns[k])])
           high    == EntriesOf(rows, HighAcosEntry)
           low     == EntriesOf(rows, LowImpressionsEntry)
           scaling == EntriesOf(rows, ScalingEntry)
           both(c) == HighAcosEntry(c) \o LowImpressionsEntry(c)
       IN  [ summary |->
               [ total_campaigns       |-> Len(campaigns),
                 recommendations_count |-> Len(high) + Len(low) + Len(scaling)
                                             + Len(EntriesOf(rows, BidAdjustment)),
                 potential_savings     |-> Round2(SumOf(high, "potential_savings")),
                 potential_revenue_increase |->
                   Round2(RatAdd(SumOf(low, "potential_revenue_increase"),
                                 SumOf(scaling, "potential_revenue_increase"))) ],
             campaign_recommendations |-> EntriesOf(rows, both),
             bid_adjustments          |-> EntriesOf(rows, BidAdjustment),
             budget_recommendations   |->
               BudgetRecommendations(List([k \in 1..Len(campaigns) |-> BudgetRow(campaigns[k])])),
             negative_keywords        |-> <<>>,
             scaling_opportunities    |-> scaling ]

\* _generate_comprehensive_recommendations
GenerateComprehensiveRecommendations(campaigns) ==
  IF BudgetRulesRaise(campaigns) THEN FailedRecommendations(campaigns)
  ELSE LET rows    == List([k \in 1..Len(campaigns) |-> LoopRow(campaigns[k])])
           high    == EntriesOf(rows, HighAcosEntry)
           low     == EntriesOf(rows, LowImpressionsEntry)
           scaling == EntriesOf(rows, ScalingEntry)
           both(c) == HighAcosEntry(c) \o LowImpressionsEntry(c)
       IN  [ summary |->
               [ total_campaigns       |-> Len(campaigns),
                 recommendations_count |-> Len(high) + Len(low) + Len(scaling),
                 potential_savings     |-> Round2(SumOf(high, "potential_savings")),
                 potential_revenue_increase |->
                   Round2(RatAdd(SumOf(low, "potential_revenue_increase"),
                                 SumOf(scaling, "potential_revenue_increase"))) ],
             campaign_recommendations |-> EntriesOf(rows, both),
             bid_adjustments          |-> EntriesOf(rows, BidAdjustment),
             budget_recommendations   |->
               BudgetRecommendations(List([k \in 1..Len(campaigns) |-> BudgetRow(campaigns[k])])),
             negative_keywords        |-> <<>>,
             scaling_opportunities    |-> scaling ]

\* the metric profiles of the rows of the campaign_data table: cost, sales,
\* impressions and clicks on, below and above the marks of the rules
EngineProfiles ==
  { [cost |-> Int2Rat(100), sales |-> Int2Rat(150), impressions |-> 6000, clicks |-> 50],
    [cost |-> Int2Rat(101), sales |-> Int2Rat(150), impressions |-> 6000, clicks |-> 50],
    [cost |-> Rat(1001, 100), sales |-> Int2Rat(12), impressions |-> 4000, clicks |-> 100],
    [cost |-> Int2Rat(10), sales |-> Int2Rat(12), impressions |-> 5000, clicks |-> 40],
    [cost |-> Int2Rat(500), sales |-> Int2Rat(1250), impressions |-> 4999, clicks |-> 0],
    [cost |-> Int2Rat(20), sales |-> Int2Rat(40), impressions |-> 900, clicks |-> 40],
    [cost |-> Int2Rat(24), sales |-> Int2Rat(100), impressions |-> 8000, clicks |-> 12],
    [cost |-> Int2Rat(12), sales |-> Int2Rat(50), impressions |-> 8000, clicks |-> 12] }

\* the row of the k-th campaign of the table
EngineRow(k, profile) ==
  [ campaign_name |-> <<"B", Digits[k + 1]>>,
    acos          |-> PercentOf(profile.cost, profile.sales),
    cost          |-> profile.cost,
    sales         |-> profile.sales,
    impressions   |-> Int2Rat(profile.impressions),
    clicks        |-> Int2Rat(profile.clicks) ]

MaxCampaigns == 3

\* the report is unknown, known but not yet processed, or processed
InitEngine ==
  /\ file = NoFile
  /\ report_type = ""
  /\ row = NoRow
  /\ record = NotExtracted
  /\ campaign_data = <<>>
  /\ result = NotRun
  /\ analytics = NotRun
  /\ analytics_log = <<>>
  /\ report \in { NoReport,
                  [processing_status |-> "pending", processed |-> FALSE],
                  [processing_status |-> "completed", processed |-> TRUE] }
  /\ response = NoResponse
  /\ comparisons = <<>>
  /\ recommendations = None
  /\ ai_call = "none"
  /\ ParserIdle

\* a row of the report is in the campaign_data table
StoreCampaign(profile) ==
  /\ report # NoReport
  /\ response = NoResponse
  /\ Len(campaign_data) < MaxCampaigns
  /\ campaign_data' = Append(campaign_data, EngineRow(Len(campaign_data) + 1, profile))
  /\ UNCHANGED <<file, report_type, row, record, result, analytics, analytics_log, report, response, comparisons, raw, number, date_input, parsed_date, recommendations, ai_call>>

\* optimize_campaigns for an authenticated user: the recommendations are
\* computed, then generate_optimization_recommendations is called with two
\* positional and two keyword arguments, and every exception becomes a 500
OptimizeCampaigns ==
  /\ response' =
       IF report = NoReport
         THEN [route |-> "optimize_campaigns", code |-> 404, error |-> "Report not found"]
       ELSE IF ~report.processed
         THEN [route |-> "optimize_campaigns", code |-> 400, error |-> "Report not yet processed"]
       ELSE IF campaign_data = <<>>
         THEN [route |-> "optimize_campaigns", code |-> 404, error |-> "No campaign data found"]
       ELSE IF CallRaises("generate_optimization_recommendations", 2, 2)
         THEN [route |-> "optimize_campaigns", code |-> 500, error |-> "Optimization failed"]
       ELSE [route |-> "optimize_campaigns", code |-> 200,
             recommendations |-> GenerateComprehensiveRecommendations(campaign_data)]
  /\ recommendations' =
       IF report = NoReport \/ ~report.processed \/ campaign_data = <<>> THEN None
       ELSE Some(GenerateComprehensiveRecommendations(campaign_data))
  /\ UNCHANGED <<file, report_type, row, record, campaign_data, result, analytics, analytics_log, report, comparisons, raw, number, date_input, parsed_date, ai_call>>

NextEngine ==
  \/ \E profile \in EngineProfiles : StoreCampaign(profile)
  \/ OptimizeCampaigns

SpecEngine == InitEngine /\ [][NextEngine]_vars

----------------------------------------------------------------------------
(* The comparison of reports *)

\* values.index(min(values)): the first position holding the least value
IndexOfMin(values) ==
  CHOOSE i \in 1..Len(values) :
    /\ \A j \in 1..Len(values) : ~RatLess(values[j], values[i])
    /\ \A j \in 1..(i - 1) : RatLess(values[i], values[j])

\* values.index(max(values)): the first position holding the greatest value
IndexOfMax(values) ==
  CHOOSE i \in 1..Len(values) :
    /\ \A j \in 1..Len(values) : ~RatLess(values[i], values[j])
    /\ \A j \in 1..(i - 1) : RatLess(values[j], values[i])

\* the performance_summary entry of every comparison
SummaryValues(reports, field) ==
  List([i \in 1..Len(reports) |-> reports[i].performance_summary[field]])

\* sales / spend for every report, a report without spend counting as its sales
EfficiencyRatiosUnguarded(reports) ==
  List([i \in 1..Len(reports) |->
    LET summary == reports[i].performance_summary
    IN  IF RatPos(summary.total_spend)
          THEN RatDiv(summary.total_sales, summary.total_spend)
          ELSE summary.total_sales])

\* sales/spend if spend > 0 else 0, for every report
EfficiencyRatios(reports) ==
  List([i \in 1..Len(reports) |->
    LET summary == reports[i].performance_summary
    IN  IF RatPos(summary.total_spend)
          THEN RatDiv(summary.total_sales, summary.total_spend)
          ELSE Zero])

\* _generate_comparison_insights
GenerateComparisonInsights(reports) ==
  IF Len(reports) < 2 THEN <<>>
  ELSE LET acos_values == SummaryValues(reports, "overall_acos")
           best_acos_idx == IndexOfMin(acos_values)
           worst_acos_idx == IndexOfMax(acos_values)
           roas_values == SummaryValues(reports, "overall_roas")
           best_roas_idx == IndexOfMax(roas_values)
           worst_roas_idx == IndexOfMin(roas_values)
           spend_values == SummaryValues(reports, "total_spend")
           sales_values == SummaryValues(reports, "total_sales")
           efficiency_ratios == EfficiencyRatios(reports)
           best_efficiency_idx == IndexOfMax(efficiency_ratios)
       IN  << [ type                  |-> "acos_comparison",
                best_report           |-> reports[best_acos_idx].report_name,
                best_acos             |-> acos_values[best_acos_idx],
                worst_report          |-> reports[worst_acos_idx].report_name,
                worst_acos            |-> acos_values[worst_acos_idx],
                improvement_potential |->
                  RatSub(acos_values[worst_acos_idx], acos_values[best_acos_idx]) ],
              [ type                  |-> "roas_comparison",
                best_report           |-> reports[best_roas_idx].report_name,
                best_roas             |-> roas_values[best_roas_idx],
                worst_report          |-> reports[worst_roas_idx].report_name,
                worst_roas            |-> roas_values[worst_roas_idx],
                improvement_potential |->
                  RatSub(roas_values[best_roas_idx], roas_values[worst_roas_idx]) ],
              [ type                  |-> "efficiency_comparison",
                most_efficient_report |-> reports[best_efficiency_idx].report_name,
                efficiency_ratio      |-> efficiency_ratios[best_efficiency_idx],
                total_spend           |-> spend_values[best_efficiency_idx],
                total_sales           |-> sales_values[best_efficiency_idx] ] >>

\* the response of compare_reports for the reports whose analytics loaded
CompareResponse(reports) ==
  IF Len(reports) < 2
    THEN [route |-> "compare_reports", code |-> 400,
          error |-> "Not enough valid reports for comparison"]
  ELSE [route               |-> "compare_reports",
        code                |-> 200,
        reports             |-> reports,
        comparison_insights |-> GenerateComparisonInsights(reports)]

\* spend and sales of the reports that are compared
CompareProfiles ==
  { [spend |-> 20, sales |-> 100],
    [spend |-> 60, sales |-> 100],
    [spend |-> 10, sales |-> 50],
    [spend |-> 0,  sales |-> 50],
    [spend |-> 40, sales |-> 0],
    [spend |-> 30, sales |-> 40] }

\* the entry compare_reports builds for the k-th report: its analytics are
\* those of one stored record with the profile's spend and sales
ComparisonOf(k, profile) ==
  [ report_id           |-> k,
    report_name         |-> <<"r", Digits[k + 1]>>,
    performance_summary |->
      CalculatePerformanceSummary(
        << [ spend       |-> Int2Rat(profile.spend),
             sales       |-> Int2Rat(profile.sales),
             impressions |-> Int2Rat(1000),
             clicks      |-> Int2Rat(10),
             orders      |-> Int2Rat(1) ] >>) ]

MaxReports == 3

InitCompare ==
  /\ file = NoFile
  /\ report_type = ""
  /\ row = NoRow
  /\ record = NotExtracted
  /\ campaign_data = <<>>
  /\ result = NotRun
  /\ analytics = NotRun
  /\ analytics_log = <<>>
  /\ report = NoReport
  /\ response = NoResponse
  /\ comparisons = <<>>
  /\ recommendations = None
  /\ ai_call = "none"
  /\ ParserIdle

\* the loop of compare_reports reaches one more report with analytics
AppendComparison(profile) ==
  /\ response = NoResponse
  /\ Len(comparisons) < MaxReports
  /\ comparisons' = Append(comparisons, ComparisonOf(Len(comparisons) + 1, profile))
  /\ UNCHANGED <<file, report_type, row, record, campaign_data, result, analytics, analytics_log, report, response, raw, number, date_input, parsed_date, recommendations, ai_call>>

\* compare_reports answers for the comparisons collected
CompareReports ==
  /\ response = NoResponse
  /\ response' = CompareResponse(comparisons)
  /\ UNCHANGED <<file, report_type, row, record, campaign_data, result, analytics, analytics_log, report, comparisons, raw, number, date_input, parsed_date, recommendations, ai_call>>

NextCompare ==
  \/ \E profile \in CompareProfiles : AppendComparison(profile)
  \/ CompareReports

SpecCompare == InitCompare /\ [][NextCompare]_vars

----------------------------------------------------------------------------
(* _parse_number applied to a text *)

\* cell texts of reports: amounts, percentages, placeholders, exports of
\* missing values
ParseSamples ==
  { <<"$","1",",","2","3","4",".","5","6">>,
    <<"1","2","%">>,
    <<"N","/","A">>, <<"n","/","a">>, <<"N","U","L","L">>, <<"N","o","n","e">>,
    <<"-","-">>,
    <<"a","b","c">>, <<"1","2","a">>, <<"1",".","2",".","3">>,
    <<"i","n","f">>, <<"-","I","n","f">>, <<"I","n","f","i","n","i","t","y">>,
    <<"N","a","N">>, <<"$","n","a","n">>,
    <<"1","e","2">>, <<"5","E","-","1">>, <<"1","e">>,
    <<"1","_","0","0","0">>, <<"1","_","_","0">> }

\* the characters of the short texts
ParseAlphabet == {"1", "5", "$", ",", "%", ".", "-", " ", "n", "a", "N", "_"}

MaxTextLen == 3

InitParse ==
  /\ file = NoFile
  /\ report_type = ""
  /\ row = NoRow
  /\ record = NotExtracted
  /\ campaign_data = <<>>
  /\ result = NotRun
  /\ analytics = NotRun
  /\ RoutesIdle
  /\ \E k \in 0..MaxTextLen :
       \E text \in ParseSamples \cup [1..k -> ParseAlphabet] : raw = List(text)
  /\ number = NotParsed
  /\ date_input = <<>>
  /\ parsed_date = None

\* _parse_number(raw)
Parse ==
  /\ ~number.done
  /\ number' = [done |-> TRUE, value |-> ParseNumber(raw)]
  /\ UNCHANGED <<file, report_type, row, record, campaign_data, result, analytics, analytics_log, report, response, comparisons, raw, date_input, parsed_date, recommendations, ai_call>>

NextParse == Parse

SpecParse == InitParse /\ [][NextParse]_vars

----------------------------------------------------------------------------
(* _parse_date applied to a text *)

\* the texts of a field of a date cell
DateFields ==
  { <<"1">>, <<"3">>, <<"0","3">>, <<"0","5">>, <<"1","2">>, <<"1","3">>,
    <<"2","9">>, <<"3","0">>, <<"3","1">>, <<"3","2">>, <<"0","0">>, <<" ","5">>,
    <<"2","0","2","4">>, <<"2","0","2","3">>, <<"0","0","0","0">>, <<"2","4">> }

\* date cells that are not three fields
DateSamples ==
  { <<>>,
    <<"M","a","r"," ","5">>,
    <<"2","0","2","4","-","0","3">>,
    <<"2","0","2","4","-","0","3","-","0","5","T","0","0">>,
    <<"2","0","2","4",".","0","3",".","0","5">> }

InitDate ==
  /\ file = NoFile
  /\ report_type = ""
  /\ row = NoRow
  /\ record = NotExtracted
  /\ campaign_data = <<>>
  /\ result = NotRun
  /\ analytics = NotRun
  /\ RoutesIdle
  /\ raw = <<>>
  /\ number = NotParsed
  /\ \/ date_input \in DateSamples
     \/ \E a \in DateFields, b \in DateFields, c \in DateFields :
          \E sep \in {"/", "-"}, other \in {"/", "-"} :
            /\ Head(a) # " "
            /\ date_input = a \o <<sep>> \o b \o <<other>> \o c
  /\ parsed_date = None

\* _parse_date(date_input)
ParseDateInput ==
  /\ parsed_date = None
  /\ parsed_date' = Some(ParseDate(date_input, Today))
  /\ UNCHANGED <<file, report_type, row, record, campaign_data, result, analytics, analytics_log, report, response, comparisons, raw, number, date_input, recommendations, ai_call>>

NextDate == ParseDateInput

SpecDate == InitDate /\ [][NextDate]_vars

-----------------------------------------------------------------------------
(* The upload route over the hosted store *)

\* the public methods the class ReportProcessor defines
report_processor_methods == {"process_report", "get_report_analytics"}

\* the row create_report inserts
CreatedReport(filename, file_type) ==
  [ filename          |-> filename,
    file_type         |-> file_type,
    processed         |-> FALSE,
    processing_status |-> "pending" ]

\* the row of the report after update_report_processing(report_id, status,
\* error_message): the update is written, or the store refuses it and the
\* method prints the failure and returns False
UpdateReportProcessing(rep, status, error_message, written) ==
  IF ~written THEN rep
  ELSE LET update_data == [ filename          |-> rep.filename,
                            file_type         |-> rep.file_type,
                            processed         |-> (status = "completed"),
                            processing_status |-> status ]
       IN  IF error_message = None THEN update_data
           ELSE update_data @@ [error_message |-> error_message[1]]

\* the responses of the upload_report of reports_supabase
SupabaseUploadFailed(message) ==
  [route |-> "upload_supabase", code |-> 500, error |-> message]

\* upload_report of reports_supabase: the file is refused, or a report row
\* is created, marked 'processing', and report_processor.process_file is
\* called, which the class ReportProcessor does not define; the handler
\* discards what update_report_processing returns
UploadReportSupabase ==
  /\ result = NotRun
  /\ response = NoResponse
  /\ \E created, marked, closed \in BOOLEAN :
       IF file.path = <<>>
         THEN /\ response' = [Refused("No file selected") EXCEPT !.route = "upload_supabase"]
              /\ UNCHANGED <<result, report>>
       ELSE IF ~allowed_file(file.path)
         THEN /\ response' = [Refused("Invalid file type") EXCEPT !.route = "upload_supabase"]
              /\ UNCHANGED <<result, report>>
       ELSE LET filename == secure_filename(file.path)
            IN  IF \A i \in 1..Len(filename) : filename[i] # "."
                  THEN /\ response' = SupabaseUploadFailed("Upload failed")
                       /\ UNCHANGED <<result, report>>
                ELSE IF ~created
                  THEN /\ response' = SupabaseUploadFailed("Failed to create report")
                       /\ UNCHANGED <<result, report>>
                ELSE LET pending    == CreatedReport(filename, Lower(Extension(filename)))
                         processing == UpdateReportProcessing(pending, "processing", None, marked)
                     IN  IF "process_file" \notin report_processor_methods
                           THEN /\ result' = [status |-> "raised", reason |-> "AttributeError"]
                                /\ report' = UpdateReportProcessing(processing, "failed",
                                                                    Some("AttributeError"), closed)
                                /\ response' = SupabaseUploadFailed("Processing failed")
                           ELSE /\ result' = [status |-> "returned"]
                                /\ report' = UpdateReportProcessing(processing, "completed",
                                                                    None, closed)
                                /\ response' = [ route |-> "upload_supabase", code |-> 200,
                                                 message |-> "Report uploaded and processed successfully" ]
  /\ UNCHANGED <<file, report_type, row, record, campaign_data, analytics, analytics_log, comparisons, raw, number, date_input, parsed_date, recommendations, ai_call>>

\* a client uploads the file it holds to one of the two upload routes
NextStatus ==
  \/ \E cells \in UploadLines : AppendRow(cells, MaxUploadRows)
  \/ UploadReport
  \/ UploadReportSupabase

SpecStatus == InitUpload /\ [][NextStatus]_vars

----------------------------------------------------------------------------
(* Campaign reports under other header rows *)

\* a header row without a campaign-id column: its first column is one no
\* field is mapped from
NameOnlyHeader ==
  << <<"P","o","r","t","f","o","l","i","o">> >> \o Tail(CampaignHeader)

\* a header row with a single 'Campaign' column, read as id and as name
SingleCampaignHeader ==
  << <<"C","a","m","p","a","i","g","n">>, <<"N","o","t","e","s">> >>
    \o Tail(Tail(CampaignHeader))

MaxHeaderRows == 2

\* a client holds a campaign report under one of the header rows
InitHeaders ==
  /\ \E h \in {CampaignHeader, NameOnlyHeader, SingleCampaignHeader} :
       file = [path |-> <<>>, readable |-> TRUE, header |-> h, rows |-> <<>>]
  /\ report_type = ""
  /\ row = NoRow
  /\ record = NotExtracted
  /\ campaign_data = <<>>
  /\ result = NotRun
  /\ analytics = NotRun
  /\ RoutesIdle
  /\ ParserIdle

NextHeaders ==
  \/ \E cells \in ReportLines : AppendRow(cells, MaxHeaderRows)
  \/ ProcessSponsoredProductsCampaign
  \/ Analytics

SpecHeaders == InitHeaders /\ [][NextHeaders]_vars

----------------------------------------------------------------------------
(* The recommendation engine over rows with defects *)

\* the metric columns a row can lack a value in
DefectColumns == {"acos", "cost", "sales"}

\* the metric profiles of the rows: a campaign with high ACOS, one with few
\* impressions and sales of 12.34, one with a high cost per click
DefectProfiles ==
  { [cost |-> Int2Rat(101), sales |-> Int2Rat(150), impressions |-> 6000, clicks |-> 50],
    [cost |-> Int2Rat(20), sales |-> Rat(1234, 100), impressions |-> 900, clicks |-> 40],
    [cost |-> Int2Rat(24), sales |-> Int2Rat(100), impressions |-> 8000, clicks |-> 12] }

\* the row r with the column holding NULL (null) or missing from the row
DefectiveRow(r, column, null) ==
  [k \in DOMAIN r \ {column} |-> r[k]] @@ [nulls |-> IF null THEN {column} ELSE {}]

MaxDefectRows == 2

\* a row of the report is in the campaign_data table, complete
StoreComplete(profile) ==
  /\ report # NoReport
  /\ response = NoResponse
  /\ Len(campaign_data) < MaxDefectRows
  /\ campaign_data' = Append(campaign_data, EngineRow(Len(campaign_data) + 1, profile))
  /\ UNCHANGED <<file, report_type, row, record, result, analytics, analytics_log, report, response, comparisons, raw, number, date_input, parsed_date, recommendations, ai_call>>

\* a row of the report is in the campaign_data table with a column that
\* save_campaign_data found no value for
StoreDefective(profile, column, null) ==
  /\ report # NoReport
  /\ response = NoResponse
  /\ Len(campaign_data) < MaxDefectRows
  /\ campaign_data' =
       Append(campaign_data,
              DefectiveRow(EngineRow(Len(campaign_data) + 1, profile), column, null))
  /\ UNCHANGED <<file, report_type, row, record, result, analytics, analytics_log, report, response, comparisons, raw, number, date_input, parsed_date, recommendations, ai_call>>

NextDefects ==
  \/ \E profile \in DefectProfiles : StoreComplete(profile)
  \/ \E profile \in DefectProfiles, column \in DefectColumns, null \in BOOLEAN :
       StoreDefective(profile, column, null)
  \/ OptimizeCampaigns

SpecDefects == InitEngine /\ [][NextDefects]_vars

----------------------------------------------------------------------------
(* The priorities of the campaigns of a report *)

\* the metric profiles of the lines: spend above 1000 with ACOS above 60,
\* spend above 1000 with ACOS between 30 and 33.3 (ROAS between 3 and
\* 3.33), ROAS above 4 on little spend, and spend without sales
PriorityProfiles ==
  { [spend |-> <<"1","2","0","0">>, sales |-> <<"1","0","0","0">>],
    [spend |-> <<"1","2","8","0">>, sales |-> <<"4","0","0","0">>],
    [spend |-> <<"1","0">>, sales |-> <<"1","0","0">>],
    [spend |-> <<"1","0","0">>, sales |-> <<"0">>] }

MaxPriorityRows == 3

\* a report with one line per campaign, uploaded, then read by
\* get_campaign_optimization
NextPriority ==
  \/ \E profile \in PriorityProfiles :
       AppendRow(RankLine(Len(file.rows) + 1, profile), MaxPriorityRows)
  \/ UploadReport
  \/ GetCampaignOptimization

SpecPriority == InitOptimize /\ [][NextPriority]_vars

----------------------------------------------------------------------------
(* Properties of the row extractor *)

\* the record the extractor returned, when it returned one
Extracted == record.done /\ record.value # None
TheRecord == record.value[1]

\* q is x / y * 100 where y > 0 and 0 elsewhere, stated without division
IsPercentOf(q, x, y) ==
  /\ q.d > 0
  /\ IF y.n > 0 THEN RatMul(q, y) = RatMul(x, Int2Rat(100)) ELSE q = Zero

\* q is x / y where y > 0 and 0 elsewhere, stated without division
IsRatioOf(q, x, y) ==
  /\ q.d > 0
  /\ IF y.n > 0 THEN RatMul(q, y) = x ELSE q = Zero

\* C1: every record returned by _extract_campaign_data has
\* ctr = clicks/impressions*100 if impressions > 0 else 0,
\* cpc = spend/clicks if clicks > 0 else 0,
\* acos = spend/sales*100 if sales > 0 else 0,
\* roas = sales/spend if spend > 0 else 0,
\* conversion_rate = orders/clicks*100 if clicks > 0 else 0,
\* and each of them is a defined number (no division by zero)
C1_DerivedMetrics ==
  Extracted =>
    LET d == TheRecord
    IN  /\ IsPercentOf(d.ctr, d.clicks, d.impressions)
        /\ IsRatioOf(d.cpc, d.spend, d.clicks)
        /\ IsPercentOf(d.acos, d.spend, d.sales)
        /\ IsRatioOf(d.roas, d.sales, d.spend)
        /\ IsPercentOf(d.conversion_rate, d.orders, d.clicks)

\* a record with clicks and spend but no sales: cpc is a true ratio, acos
\* and roas fall back to 0 or are computed from the zero
C1_Witness ==
  /\ Extracted
  /\ TheRecord.sales = Zero
  /\ RatPos(TheRecord.spend) /\ RatPos(TheRecord.clicks)
  /\ RatPos(TheRecord.cpc)
  /\ TheRecord.acos = Zero
  /\ TheRecord.impressions = Zero /\ TheRecord.ctr = Zero

NonNegative(q) == q.d > 0 /\ q.n >= 0

\* C2: every record returned by _extract_campaign_data, whatever text the
\* numeric columns hold, has non-negative impressions, clicks, spend, sales,
\* orders and units and non-negative, defined ctr, cpc, acos, roas and
\* conversion_rate
C2_NonNegativeRecord ==
  Extracted =>
    \A field \in {"impressions", "clicks", "spend", "sales", "orders", "units",
                  "ctr", "cpc", "acos", "roas", "conversion_rate"} :
      NonNegative(TheRecord[field])

----------------------------------------------------------------------------
(* Properties of the analytics *)

Analysed == analytics # NotRun /\ analytics.status = "ok"

\* the sum of a field over the stored rows whose key field has the value key
SumWhere(key_field, key, field) ==
  SumOf(SelectSeq(campaign_data, LAMBDA c : c[key_field] = key), field)

StoredValues(key_field) == {campaign_data[i][key_field] : i \in 1..Len(campaign_data)}

\* C3: every per-campaign aggregate, every per-date aggregate and the
\* overall summary carry the sums of spend, sales, impressions, clicks and
\* orders of their group of stored rows, and their acos, roas, ctr (and cpc,
\* conversion_rate where present) are the ratios of these sums with the zero
\* fallback; every campaign and every date of the stored rows has its aggregate
C3_RatioOfSums ==
  Analysed =>
    LET details == analytics.campaign_analysis.campaign_details
        daily == analytics.trend_analysis.daily_performance
        summary == analytics.performance_summary
    IN  /\ {details[k].campaign_id : k \in 1..Len(details)} = StoredValues("amazon_campaign_id")
        /\ \A k \in 1..Len(details) :
             LET g == details[k]
                 S(field) == SumWhere("amazon_campaign_id", g.campaign_id, field)
             IN  /\ g.total_spend = S("spend") /\ g.total_sales = S("sales")
                 /\ g.total_impressions = S("impressions")
                 /\ g.total_clicks = S("clicks") /\ g.total_orders = S("orders")
                 /\ IsPercentOf(g.acos, S("spend"), S("sales"))
                 /\ IsRatioOf(g.roas, S("sales"), S("spend"))
                 /\ IsPercentOf(g.ctr, S("clicks"), S("impressions"))
                 /\ IsRatioOf(g.cpc, S("spend"), S("clicks"))
                 /\ IsPercentOf(g.conversion_rate, S("orders"), S("clicks"))
        /\ {daily[k].date : k \in 1..Len(daily)} = StoredValues("date")
        /\ \A k \in 1..Len(daily) :
             LET g == daily[k]
                 S(field) == SumWhere("date", g.date, field)
             IN  /\ g.spend = S("spend") /\ g.sales = S("sales")
                 /\ g.impressions = S("impressions")
                 /\ g.clicks = S("clicks") /\ g.orders = S("orders")
                 /\ IsPercentOf(g.acos, S("spend"), S("sales"))
                 /\ IsRatioOf(g.roas, S("sales"), S("spend"))
                 /\ IsPercentOf(g.ctr, S("clicks"), S("impressions"))
        /\ LET S(field) == SumOf(campaign_data, field)
           IN  /\ summary.total_spend = S("spend") /\ summary.total_sales = S("sales")
               /\ summary.total_impressions = S("impressions")
               /\ summary.total_clicks = S("clicks") /\ summary.total_orders = S("orders")
               /\ IsPercentOf(summary.overall_acos, S("spend"), S("sales"))
               /\ IsRatioOf(summary.overall_roas, S("sales"), S("spend"))
               /\ IsPercentOf(summary.overall_ctr, S("clicks"), S("impressions"))
               /\ IsRatioOf(summary.overall_cpc, S("spend"), S("clicks"))
               /\ IsPercentOf(summary.conversion_rate, S("orders"), S("clicks"))

\* two stored rows of one campaign, {spend 10, sales 0} and {spend 0, sales 20},
\* each with acos 0 of its own: the campaign's acos is 50 and its roas 2
C3_Witness ==
  /\ Analysed
  /\ Len(campaign_data) = 2
  /\ campaign_data[1].amazon_campaign_id = campaign_data[2].amazon_campaign_id
  /\ campaign_data[1].spend = Int2Rat(10) /\ campaign_data[1].sales = Zero
  /\ campaign_data[2].spend = Zero /\ campaign_data[2].sales = Int2Rat(20)
  /\ campaign_data[1].acos = Zero /\ campaign_data[2].acos = Zero
  /\ analytics.campaign_analysis.campaign_details[1].days = 2
  /\ analytics.campaign_analysis.campaign_details[1].acos = Int2Rat(50)
  /\ analytics.campaign_analysis.campaign_details[1].roas = Int2Rat(2)
  /\ analytics.performance_summary.overall_acos = Int2Rat(50)

\* the campaign name cell of a line of the file, trimmed (empty when the
\* line has no such cell)
NameCell(cells) == IF Len(cells) >= 2 THEN Strip(cells[2]) ELSE <<>>

\* C4: whatever lines a readable campaign report holds (lines without a
\* campaign name, lines shorter or longer than the header, lines with
\* unparseable numbers or dates), _process_sponsored_products_campaign
\* returns without raising, stores exactly the lines that have a campaign
\* name, and reports their number as campaigns_processed
C4_MalformedRowsSkipped ==
  (result # NotRun /\ file.readable) =>
    LET named == SelectSeq(DataRows(file), LAMBDA cells : NameCell(cells) # <<>>)
    IN  /\ result.status = "returned"
        /\ result.campaigns_processed = Len(named)
        /\ Len(campaign_data) = Len(named)

\* the daily aggregate of the earliest (latest = FALSE) or latest date
DayOf(latest) ==
  LET daily == analytics.trend_analysis.daily_performance
  IN  CHOOSE g \in {daily[k] : k \in 1..Len(daily)} :
        \A k \in 1..Len(daily) :
          IF latest THEN ~DateLess(g.date, daily[k].date)
          ELSE ~DateLess(daily[k].date, g.date)

TwoDates == Analysed /\ Len(analytics.trend_analysis.daily_performance) >= 2

NoNegativeAmounts ==
  \A i \in 1..Len(campaign_data) :
    NonNegative(campaign_data[i].spend) /\ NonNegative(campaign_data[i].sales)

\* C6: over stored rows without negative amounts, every campaign's
\* efficiency_score is max(0, roas*10 - acos/10) over the roas and acos of
\* the campaign's aggregate (the ratios of its summed sales and spend), also
\* for campaigns with several rows, and overall_efficiency is the arithmetic
\* mean of the campaigns' scores
C6_EfficiencyFromAggregate ==
  (Analysed /\ NoNegativeAmounts) =>
    LET details == analytics.campaign_analysis.campaign_details
        efficiency == analytics.efficiency_metrics.campaign_efficiency
        Score(g) == RatMax(Zero, RatSub(RatMul(g.roas, Int2Rat(10)),
                                        RatDiv(g.acos, Int2Rat(10))))
    IN  /\ Len(efficiency) = Len(details)
        /\ \A k \in 1..Len(details) :
             /\ efficiency[k].campaign_id = details[k].campaign_id
             /\ efficiency[k].efficiency_score = Score(details[k])
        /\ RatMul(analytics.efficiency_metrics.overall_efficiency, Int2Rat(Len(details)))
             = RatSum([k \in 1..Len(details) |-> Score(details[k])])

----------------------------------------------------------------------------
(* Properties of the ranking *)

\* the place of the i-th of items in the stable descending order by field:
\* behind the items with a greater key and the earlier items with an equal key
PlaceOf(items, i, field) ==
  1 + Cardinality({j \in 1..Len(items) :
                     \/ RatLess(items[i][field], items[j][field])
                     \/ (j < i /\ items[j][field] = items[i][field])})

\* ranking holds the first five of items in stable descending order by field
IsTopFive(ranking, items, field) ==
  /\ Len(ranking) = IF Len(items) < 5 THEN Len(items) ELSE 5
  /\ \A i \in 1..Len(items) :
       PlaceOf(items, i, field) <= 5 => ranking[PlaceOf(items, i, field)] = items[i]

\* C7: top_performers is the campaign aggregates sorted by roas descending
\* and cut to five, worst_performers the same by acos; campaigns with an
\* equal key keep the order in which they were first seen in the input, and
\* campaign_details lists the campaigns in that first-seen order
C7_StableRanking ==
  Analysed =>
    LET details == analytics.campaign_analysis.campaign_details
        ids == [i \in 1..Len(campaign_data) |-> campaign_data[i].amazon_campaign_id]
        first(id) == CHOOSE i \in 1..Len(ids) : ids[i] = id /\ \A j \in 1..(i - 1) : ids[j] # id
    IN  /\ \A k, l \in 1..Len(details) :
             k < l => first(details[k].campaign_id) < first(details[l].campaign_id)
        /\ IsTopFive(analytics.campaign_analysis.top_performers, details, "roas")
        /\ IsTopFive(analytics.campaign_analysis.worst_performers, details, "acos")

\* six campaigns of which the second has the best roas and the others tie:
\* the top five are the second, then the first, third, fourth and fifth in
\* input order, and the sixth, tied with them, is cut
C7_Witness ==
  /\ Analysed
  /\ Len(analytics.campaign_analysis.campaign_details) = 6
  /\ LET details == analytics.campaign_analysis.campaign_details
         top == analytics.campaign_analysis.top_performers
     IN  /\ top = <<details[2], details[1], details[3], details[4], details[5]>>
         /\ RatLess(details[1].roas, details[2].roas)
         /\ \A k \in 3..6 : details[k].roas = details[1].roas

----------------------------------------------------------------------------
(* Properties of the report type detector *)

Detected == report_type # ""

\* whether the lower-cased file name contains the text
NameHas(text) == Contains(Lower(Basename(file.path)), text)

NameHasKeywordOrTargeting ==
  NameHas(<<"k","e","y","w","o","r","d">>) \/ NameHas(<<"t","a","r","g","e","t","i","n","g">>)

\* whether one of the six file name patterns matches
NamePatternMatches ==
  \/ NameHas(<<"s","p","o","n","s","o","r","e","d","_","p","r","o","d","u","c","t","s">>)
       /\ (NameHas(<<"c","a","m","p","a","i","g","n">>) \/ NameHasKeywordOrTargeting)
  \/ NameHas(<<"s","p","o","n","s","o","r","e","d","_","b","r","a","n","d","s">>)
       /\ (NameHas(<<"c","a","m","p","a","i","g","n">>) \/ NameHasKeywordOrTargeting)
  \/ NameHas(<<"s","p","o","n","s","o","r","e","d","_","d","i","s","p","l","a","y">>)
  \/ NameHas(<<"s","e","a","r","c","h","_","t","e","r","m">>)
  \/ NameHas(<<"s","e","a","r","c","h","-","t","e","r","m">>)

\* C8: the lower-cased file name is tested against the patterns in the
\* order sponsored_products+campaign, sponsored_products+(keyword|targeting),
\* sponsored_brands+campaign, sponsored_brands+(keyword|targeting),
\* sponsored_display, search_term|search-term; the first that matches decides
\* the type, whatever the header row holds
C8_FilenamePriority ==
  (Detected /\ NamePatternMatches) =>
    report_type =
      IF NameHas(<<"s","p","o","n","s","o","r","e","d","_","p","r","o","d","u","c","t","s">>) /\ NameHas(<<"c","a","m","p","a","i","g","n">>)
        THEN "sponsored_products_campaign"
      ELSE IF NameHas(<<"s","p","o","n","s","o","r","e","d","_","p","r","o","d","u","c","t","s">>) /\ NameHasKeywordOrTargeting
        THEN "sponsored_products_keyword"
      ELSE IF NameHas(<<"s","p","o","n","s","o","r","e","d","_","b","r","a","n","d","s">>) /\ NameHas(<<"c","a","m","p","a","i","g","n">>)
        THEN "sponsored_brands_campaign"
      ELSE IF NameHas(<<"s","p","o","n","s","o","r","e","d","_","b","r","a","n","d","s">>) /\ NameHasKeywordOrTargeting
        THEN "sponsored_brands_keyword"
      ELSE IF NameHas(<<"s","p","o","n","s","o","r","e","d","_","d","i","s","p","l","a","y">>)
        THEN "sponsored_display_campaign"
      ELSE "search_term"

\* whether the header row has a column that is the text once lower-cased
\* and trimmed
HeaderHas(text) ==
  \E i \in 1..Len(file.header) : Strip(Lower(file.header[i])) = text

\* a name with sponsored_products, keyword and campaign on a file whose
\* header row has Campaign Name, Impressions, Targeting and Search Term
\* columns: the type is sponsored_products_campaign
C8_Witness ==
  /\ Detected
  /\ NameHas(<<"s","p","o","n","s","o","r","e","d","_","p","r","o","d","u","c","t","s">>) /\ NameHas(<<"c","a","m","p","a","i","g","n">>)
  /\ NameHas(<<"k","e","y","w","o","r","d">>)
  /\ file.readable
  /\ HeaderHas(<<"t","a","r","g","e","t","i","n","g">>) /\ HeaderHas(<<"s","e","a","r","c","h"," ","t","e","r","m">>)
  /\ report_type = "sponsored_products_campaign"

\* C9: a file named SponsoredProducts_Campaign_report.csv is classified as
\* sponsored_products_campaign whatever its header row holds
C9_SponsoredProductsCampaignName ==
  (Detected /\ Basename(file.path) = <<"S","p","o","n","s","o","r","e","d","P","r","o","d","u","c","t","s","_","C","a","m","p","a","i","g","n","_","r","e","p","o","r","t",".","c","s","v">>) =>
    report_type = "sponsored_products_campaign"

\* C10: when no file name pattern matches, a readable file whose header row
\* has 'campaign name' and 'impressions' (lower-cased, trimmed) is
\* sponsored_products_keyword if it also has 'keyword' or 'targeting' and
\* sponsored_products_campaign otherwise; else a readable file with a
\* 'search term' header is search_term; every other file, an unreadable or
\* empty one included, is sponsored_products_campaign; and the detector
\* always returns one of the six supported types
C10_HeaderFallback ==
  Detected =>
    /\ report_type \in supported_formats
    /\ ~NamePatternMatches =>
         report_type =
           IF file.readable /\ HeaderHas(<<"c","a","m","p","a","i","g","n"," ","n","a","m","e">>)
                /\ HeaderHas(<<"i","m","p","r","e","s","s","i","o","n","s">>)
             THEN (IF HeaderHas(<<"k","e","y","w","o","r","d">>) \/ HeaderHas(<<"t","a","r","g","e","t","i","n","g">>)
                     THEN "sponsored_products_keyword"
                     ELSE "sponsored_products_campaign")
           ELSE IF file.readable /\ HeaderHas(<<"s","e","a","r","c","h"," ","t","e","r","m">>)
             THEN "search_term"
           ELSE "sponsored_products_campaign"

\* a file whose name matches no pattern and whose header row has a Search
\* Term column next to Campaign Name, but no Impressions column: search_term
C10_Witness ==
  /\ Detected
  /\ ~NamePatternMatches
  /\ file.readable
  /\ HeaderHas(<<"c","a","m","p","a","i","g","n"," ","n","a","m","e">>) /\ HeaderHas(<<"s","e","a","r","c","h"," ","t","e","r","m">>)
  /\ ~HeaderHas(<<"i","m","p","r","e","s","s","i","o","n","s">>)
  /\ report_type = "search_term"

----------------------------------------------------------------------------
(* Properties of process_report and the upload route *)

\* process_report ran on the uploaded file
Processed == report # NoReport

\* whether the lower-cased name the file was saved under contains the text
SavedNameHas(text) == Contains(Lower(report.filename), text)

\* whether one of the six file name patterns matches the saved name
SavedNamePatternMatches ==
  \/ SavedNameHas(<<"s","p","o","n","s","o","r","e","d","_","p","r","o","d","u","c","t","s">>)
       /\ (\/ SavedNameHas(<<"c","a","m","p","a","i","g","n">>)
           \/ SavedNameHas(<<"k","e","y","w","o","r","d">>)
           \/ SavedNameHas(<<"t","a","r","g","e","t","i","n","g">>))
  \/ SavedNameHas(<<"s","p","o","n","s","o","r","e","d","_","b","r","a","n","d","s">>)
       /\ (\/ SavedNameHas(<<"c","a","m","p","a","i","g","n">>)
           \/ SavedNameHas(<<"k","e","y","w","o","r","d">>)
           \/ SavedNameHas(<<"t","a","r","g","e","t","i","n","g">>))
  \/ SavedNameHas(<<"s","p","o","n","s","o","r","e","d","_","d","i","s","p","l","a","y">>)
  \/ SavedNameHas(<<"s","e","a","r","c","h","_","t","e","r","m">>)
  \/ SavedNameHas(<<"s","e","a","r","c","h","-","t","e","r","m">>)

\* whether one of the header rules of the detector matches
HeaderRuleMatches ==
  \/ HeaderHas(<<"c","a","m","p","a","i","g","n"," ","n","a","m","e">>)
       /\ HeaderHas(<<"i","m","p","r","e","s","s","i","o","n","s">>)
  \/ HeaderHas(<<"s","e","a","r","c","h"," ","t","e","r","m">>)

\* C11: when the report type of a readable file cannot be detected, neither
\* from the name it was saved under nor from its header row, process_report
\* raises and no row of the file is stored
C11_UndetectableTypeFails ==
  (Processed /\ file.readable /\ ~SavedNamePatternMatches /\ ~HeaderRuleMatches) =>
    (result.status = "raised" /\ campaign_data = <<>>)

\* the four parts of the analytics
AnalyticsParts ==
  {"performance_summary", "campaign_analysis", "trend_analysis", "efficiency_metrics"}

\* the value carries an 'error' entry and none of the parts of the analytics
IsNoData(d) == "error" \in DOMAIN d /\ DOMAIN d \cap AnalyticsParts = {}

\* the handlers that consume get_report_analytics
Consumers == {"get_campaign_analysis", "get_trend_analysis", "get_campaign_optimization"}

C13_NoDataFoundIsDistinct ==
  (/\ response.route = "upload"
   /\ result.status = "returned"
   /\ Get(result, "campaigns_processed", -1) = 0) =>
    ~(/\ response.code = 200
      /\ response.message = "Report uploaded and processed successfully"
      /\ response.summary.campaigns_processed = 0)

----------------------------------------------------------------------------
(* Properties of the aggregator run twice *)

\* the run before the latest run of get_report_analytics
PreviousRun == analytics_log[Len(analytics_log)]

----------------------------------------------------------------------------
(* Properties of the recommendation rules *)

\* the stored rows with ACOS above 50 and spend above 10
HighAcosRows ==
  SelectSeq(campaign_data,
            LAMBDA c : RatLess(Int2Rat(50), c.acos) /\ RatLess(Int2Rat(10), c.spend))

\* the high-ACOS entries of the recommendations of the latest analytics
HighAcosAlerts ==
  SelectSeq(analytics.recommendations, LAMBDA r : r.type = "high_acos_alert")

\* C15: the recommendations of a report flag the campaigns for high ACOS
\* if and only if their ACOS is above 50 and their spend is above 10: there
\* is a high-ACOS entry exactly when there is such a campaign, it has
\* priority high and it counts exactly those campaigns
C15_HighAcosRule ==
  analytics.status = "ok" =>
    /\ HighAcosAlerts # <<>> <=> HighAcosRows # <<>>
    /\ \A k \in 1..Len(HighAcosAlerts) :
         /\ HighAcosAlerts[k].priority = "high"
         /\ HighAcosAlerts[k].affected_campaigns = Len(HighAcosRows)

\* the engine computed recommendations for the rows of the table
Optimized == response.route = "optimize_campaigns" /\ recommendations # None

\* the bid adjustments the engine emitted for the k-th campaign
AdjustmentsFor(k) ==
  SelectSeq(recommendations[1].bid_adjustments,
            LAMBDA a : a.campaign = campaign_data[k].campaign_name)

\* CPC = spend / clicks, and 0 when clicks = 0
ClaimedCpc(k) ==
  IF campaign_data[k].clicks = Zero THEN Zero
  ELSE RatDiv(campaign_data[k].cost, campaign_data[k].clicks)

\* C16: for every campaign the engine emits at most one bid adjustment: a
\* bid decrease (15-20%) if and only if CPC > 2.00, otherwise a bid increase
\* (20-30%) if and only if CPC < 0.50 and impressions < 5000
C16_BidAdjustmentRule ==
  Optimized =>
    \A k \in 1..Len(campaign_data) :
      LET adjustments == AdjustmentsFor(k)
          decrease == \E i \in 1..Len(adjustments) :
                        adjustments[i].recommendation = "Reduce bids by 15-20%"
          increase == \E i \in 1..Len(adjustments) :
                        adjustments[i].recommendation = "Increase bids by 20-30%"
      IN  /\ Len(adjustments) <= 1
          /\ decrease <=> RatLess(Int2Rat(2), ClaimedCpc(k))
          /\ increase <=> /\ ~RatLess(Int2Rat(2), ClaimedCpc(k))
                          /\ RatLess(ClaimedCpc(k), Rat(1, 2))
                          /\ RatLess(campaign_data[k].impressions, Int2Rat(5000))

\* three campaigns: one with CPC 2.00 exactly and no adjustment, one with
\* CPC 2.02 and a decrease, one without clicks and an increase
C16_Witness ==
  /\ Optimized
  /\ Len(campaign_data) = 3
  /\ ClaimedCpc(1) = Int2Rat(2) /\ AdjustmentsFor(1) = <<>>
  /\ ClaimedCpc(2) = Rat(101, 50) /\ Len(AdjustmentsFor(2)) = 1
  /\ campaign_data[3].clicks = Zero /\ Len(AdjustmentsFor(3)) = 1
  /\ Len(recommendations[1].bid_adjustments) = 2

\* get_optimization_recommendations computed its recommendations
Recommended ==
  response.route = "get_optimization_recommendations" /\ recommendations # None

\* whether the budget recommendations hold the action for the campaign
BudgetActionFor(c, action) ==
  \E i \in 1..Len(recommendations[1].budget_recommendations) :
     /\ recommendations[1].budget_recommendations[i].campaign_id = c.campaign_id
     /\ recommendations[1].budget_recommendations[i].action = action

\* C17: the budget recommendations hold an increase for exactly the
\* campaigns of the report with ACOS < 30 and sales > 50 and a decrease for
\* exactly the campaigns with ACOS > 60, and no campaign gets both
C17_BudgetRule ==
  Recommended =>
    \A k \in 1..Len(analytics.campaign_analysis.campaign_details) :
      LET c == analytics.campaign_analysis.campaign_details[k]
      IN  /\ BudgetActionFor(c, "increase_budget")
               <=> (RatLess(c.acos, Int2Rat(30)) /\ RatLess(Int2Rat(50), c.total_sales))
          /\ BudgetActionFor(c, "decrease_budget") <=> RatLess(Int2Rat(60), c.acos)
          /\ ~(BudgetActionFor(c, "increase_budget") /\ BudgetActionFor(c, "decrease_budget"))

\* get_campaign_optimization answered with its list
Prioritised == response.route = "get_campaign_optimization" /\ response.code = 200

\* min(10, 5 + s + a + r) for the metrics of a campaign
ClaimedPriority(metrics) ==
  LET s == IF RatLess(Int2Rat(1000), metrics.spend) THEN 2
           ELSE IF RatLess(Int2Rat(500), metrics.spend)
                   /\ RatLeq(metrics.spend, Int2Rat(1000)) THEN 1
           ELSE 0
      a == IF RatLess(Int2Rat(60), metrics.acos) THEN 3
           ELSE IF RatLess(Int2Rat(40), metrics.acos)
                   /\ RatLeq(metrics.acos, Int2Rat(60)) THEN 2
           ELSE IF RatLess(Int2Rat(30), metrics.acos)
                   /\ RatLeq(metrics.acos, Int2Rat(40)) THEN 1
           ELSE 0
      r == IF RatLess(Int2Rat(4), metrics.roas) THEN 2
           ELSE IF RatLess(Int2Rat(3), metrics.roas)
                   /\ RatLeq(metrics.roas, Int2Rat(4)) THEN 1
           ELSE 0
  IN  IF 5 + s + a + r < 10 THEN 5 + s + a + r ELSE 10

\* C18: the priority of every campaign is min(10, 5 + s + a + r) with s, a
\* and r from the marks of spend (500, 1000), ACOS (30, 40, 60) and ROAS
\* (3, 4), it is an integer from 1 to 10, there is one entry per campaign,
\* and campaign_optimizations is ordered by priority, highest first
C18_PriorityScore ==
  Prioritised =>
    LET optimizations == response.campaign_optimizations
    IN  /\ Len(optimizations) = analytics.campaign_analysis.total_campaigns
        /\ \A i \in 1..Len(optimizations) :
             /\ optimizations[i].priority = ClaimedPriority(optimizations[i].current_metrics)
             /\ optimizations[i].priority \in 1..10
        /\ \A i, j \in 1..Len(optimizations) :
             i < j => optimizations[i].priority >= optimizations[j].priority

\* campaigns with spend 500 (priority 6), ACOS 60 (priority 7) and ROAS 5
\* on spend 1200 (priority 9), uploaded in that order, are listed in the
\* opposite order
C18_Witness ==
  /\ Prioritised
  /\ Len(response.campaign_optimizations) = 3
  /\ response.campaign_optimizations[1].priority = 9
  /\ response.campaign_optimizations[1].campaign_id = <<"c","7">>
  /\ response.campaign_optimizations[2].priority = 7
  /\ response.campaign_optimizations[3].priority = 6
  /\ response.campaign_optimizations[3].current_metrics.spend = Int2Rat(500)
  /\ response.campaign_optimizations[3].campaign_id = <<"c","9">>

----------------------------------------------------------------------------
(* Properties of the comparison of reports *)

\* compare_reports has answered with insights
Compared == response.route = "compare_reports" /\ response.code = 200

\* sales/spend of a compared report, a report without spend counting as 0
ClaimedEfficiency(c) ==
  IF c.performance_summary.total_spend = Zero THEN Zero
  ELSE RatDiv(c.performance_summary.total_sales, c.performance_summary.total_spend)

\* x is the least (Least) or greatest (~Least) of the summaries' field
IsExtreme(x, field, least) ==
  /\ \E k \in 1..Len(comparisons) : comparisons[k].performance_summary[field] = x
  /\ \A k \in 1..Len(comparisons) :
       IF least THEN RatLeq(x, comparisons[k].performance_summary[field])
       ELSE RatLeq(comparisons[k].performance_summary[field], x)

\* C19: for two or more summaries the insights name the minimum overall_acos
\* as best_acos and the maximum as worst_acos with improvement_potential =
\* worst - best >= 0, the maximum overall_roas as best_roas and the minimum as
\* worst_roas, and as most efficient a report whose sales/spend (0 without
\* spend) is the greatest; ACOS 20 and 60 give best 20, worst 60, potential 40
C19_ComparisonInsights ==
  Compared =>
    LET acos == response.comparison_insights[1]
        roas == response.comparison_insights[2]
        efficiency == response.comparison_insights[3]
    IN  /\ Len(response.comparison_insights) = 3
        /\ IsExtreme(acos.best_acos, "overall_acos", TRUE)
        /\ IsExtreme(acos.worst_acos, "overall_acos", FALSE)
        /\ acos.improvement_potential = RatSub(acos.worst_acos, acos.best_acos)
        /\ RatLeq(Zero, acos.improvement_potential)
        /\ IsExtreme(roas.best_roas, "overall_roas", FALSE)
        /\ IsExtreme(roas.worst_roas, "overall_roas", TRUE)
        /\ \E k \in 1..Len(comparisons) :
             /\ comparisons[k].report_name = efficiency.most_efficient_report
             /\ efficiency.efficiency_ratio = ClaimedEfficiency(comparisons[k])
             /\ \A j \in 1..Len(comparisons) :
                  RatLeq(ClaimedEfficiency(comparisons[j]), efficiency.efficiency_ratio)
        /\ ( /\ Len(comparisons) = 2
             /\ { comparisons[k].performance_summary.overall_acos : k \in 1..2 }
                  = { Int2Rat(20), Int2Rat(60) } )
           => /\ acos.best_acos = Int2Rat(20)
              /\ acos.worst_acos = Int2Rat(60)
              /\ acos.improvement_potential = Int2Rat(40)

\* reports with ACOS 60 and 20 and a report without spend have been compared
C19_Witness ==
  /\ Compared
  /\ Len(comparisons) = 3
  /\ comparisons[1].performance_summary.overall_acos = Int2Rat(60)
  /\ comparisons[2].performance_summary.overall_acos = Int2Rat(20)
  /\ comparisons[3].performance_summary.total_spend = Zero
  /\ response.comparison_insights[1].improvement_potential = Int2Rat(60)
  /\ response.comparison_insights[3].most_efficient_report = comparisons[2].report_name

----------------------------------------------------------------------------
(* Properties of _parse_number *)

\* the text has no digit, so that it spells no number
NoDigit(text) == \A i \in 1..Len(text) : text[i] \notin DOMAIN ValueOf

\* C20: _parse_number returns a value for every text: 0.0 for the empty text
\* and for n/a, null, none, -- in any letter case, 1234.56 for "$1,234.56",
\* 12.0 for "12%", and 0.0 for a text that is not a number once every '$',
\* ',' and '%' is removed
C20_ParseNumberTotal ==
  number.done =>
    /\ (raw = <<>> \/ Lower(raw) \in zero_tokens) => number.value = Zero
    /\ raw = <<"$","1",",","2","3","4",".","5","6">> => number.value = Rat(123456, 100)
    /\ raw = <<"1","2","%">> => number.value = Int2Rat(12)
    /\ NoDigit(RemoveSymbols(raw)) => number.value = Zero

----------------------------------------------------------------------------
(* Properties of _parse_date *)

\* the formats that parse the text handed to _parse_date
ParsingFormats == {k \in 1..Len(formats) : StrptimeMatches(date_input, formats[k])}

\* the text is first/second/year with a first field of one or two digits
IsSlashDate ==
  /\ Len(Split(date_input, "/")) = 3
  /\ IsDigits(Split(date_input, "/")[1])
  /\ Len(Split(date_input, "/")[1]) \in {1, 2}
  /\ ParsingFormats # {}

\* the number a field of the slash date spells
SlashField(k) == DigitsValue(LStrip(Split(date_input, "/")[k]))

\* C21: _parse_date returns the date of the first of the formats YYYY-MM-DD,
\* MM/DD/YYYY, DD/MM/YYYY, YYYY/MM/DD, MM-DD-YYYY, DD-MM-YYYY that parses the
\* text; a slash date with a first field of at most 12 is read month-first,
\* one with a greater first field day-first; an empty or unparseable text
\* yields the current date
C21_FirstMatchingFormat ==
  parsed_date # None =>
    /\ ParsingFormats = {} => parsed_date = Some(Today)
    /\ ParsingFormats # {} =>
         parsed_date = Some(Strptime(date_input,
           formats[CHOOSE k \in ParsingFormats : \A j \in ParsingFormats : k <= j]))
    /\ (IsSlashDate /\ SlashField(1) <= 12) =>
         parsed_date = Some(<<SlashField(3), SlashField(1), SlashField(2)>>)
    /\ (IsSlashDate /\ SlashField(1) > 12) =>
         parsed_date = Some(<<SlashField(3), SlashField(2), SlashField(1)>>)
    /\ date_input = <<"2","0","2","4","-","0","3","-","0","5">> =>
         parsed_date = Some(<<2024, 3, 5>>)
    /\ date_input = <<"0","3","/","0","5","/","2","0","2","4">> =>
         parsed_date = Some(<<2024, 3, 5>>)

\* 03/05/2024, which MM/DD/YYYY and DD/MM/YYYY both parse, has been read as
\* March 5
C21_Witness ==
  /\ date_input = <<"0","3","/","0","5","/","2","0","2","4">>
  /\ Cardinality(ParsingFormats) = 2
  /\ parsed_date = Some(<<2024, 3, 5>>)

----------------------------------------------------------------------------
(* Properties of the handlers that call the language model service *)

\* the ways the request to the OpenRouter API fails
AiFailures == {"no_api_key", "connection_error", "http_error", "malformed_body", "prose"}

\* C22: whatever the outcome of the request to the language model (no API
\* key, network or HTTP failure, content that is not JSON), the service
\* returns a mapping from its fallback, and get_analysis answers a report
\* that has analytics with 200 and the rule-based results
C22_AiFailureRecovered ==
  /\ (response.route = "get_report_summary" /\ ai_call \in AiFailures) =>
       /\ response.code = 200
       /\ response.summary.mapping
       /\ response.summary.source \in {"mock", "wrapped"}
  /\ (response.route = "get_analysis" /\ analytics.status = "ok") =>
       /\ response.code = 200
       /\ response.performance_summary = analytics.performance_summary
       /\ response.recommendations = analytics.recommendations

----------------------------------------------------------------------------
(* Properties of a report processed again *)

\* the rows one processing of the file stores
StoredOnce == CampaignRows(ExtractedRecords(file, Today))

\* C23: however often the same file was processed for the report, the
\* analytics give the aggregates of one processing: the same total spend,
\* sales, impressions, clicks and orders and the same campaign details
C23_RerunKeepsAggregates ==
  (analytics # NotRun /\ analytics.status = "ok" /\ ~ProcessRaises(file)) =>
    /\ analytics.performance_summary = CalculatePerformanceSummary(StoredOnce)
    /\ analytics.campaign_analysis.campaign_details
         = AnalyzeCampaigns(StoredOnce).campaign_details

----------------------------------------------------------------------------
(* Properties of the trend direction *)

\* the calendar dates of the stored rows
StoredDates == {campaign_data[i].date : i \in 1..Len(campaign_data)}

\* the earliest (latest = FALSE) or latest (latest = TRUE) of these dates
StoredDate(latest) ==
  CHOOSE d \in StoredDates :
    \A e \in StoredDates : IF latest THEN ~DateLess(d, e) ELSE ~DateLess(e, d)

\* the ACOS of the rows of one date: their spend over their sales, in percent
AcosOn(d) == PercentOf(SumWhere("date", d, "spend"), SumWhere("date", d, "sales"))

\* C24: trend_direction is 'insufficient_data' exactly when the stored rows
\* cover fewer than two calendar dates; otherwise it compares the ACOS of
\* the latest date with that of the earliest date, in whatever order the
\* rows were supplied
C24_TrendOverCalendarDates ==
  Analysed =>
    /\ analytics.trend_analysis.trend_direction = "insufficient_data"
         <=> Cardinality(StoredDates) < 2
    /\ Cardinality(StoredDates) >= 2 =>
         analytics.trend_analysis.trend_direction =
           IF RatLess(AcosOn(StoredDate(TRUE)), RatMul(AcosOn(StoredDate(FALSE)), Rat(9, 10)))
             THEN "improving"
           ELSE IF RatLess(RatMul(AcosOn(StoredDate(FALSE)), Rat(11, 10)), AcosOn(StoredDate(TRUE)))
             THEN "declining"
           ELSE "stable"

\* the rows of the later date were supplied first, and the direction is that
\* from the earlier date to the later one
C24_Witness ==
  /\ Analysed
  /\ Len(campaign_data) = 2
  /\ DateLess(campaign_data[2].date, campaign_data[1].date)
  /\ AcosOn(campaign_data[2].date) = Int2Rat(40)
  /\ AcosOn(campaign_data[1].date) = Int2Rat(33)
  /\ analytics.trend_analysis.trend_direction = "improving"

-----------------------------------------------------------------------------
(* Properties of the status an upload leaves *)

\* an upload route has answered and the upload created a report row
Uploaded ==
  /\ response.route \in {"upload", "upload_supabase"}
  /\ report # NoReport

\* C25: once an upload has created a report row, upload_report (of either
\* route) leaves it with processing_status 'completed' or the failure status
\* ('error' / 'failed'), never 'pending' or 'processing', with processed true
\* exactly when the status is 'completed'; a report whose file was processed
\* without error is left 'completed'
C25_UploadSettlesStatus ==
  Uploaded =>
    /\ report.processing_status \in {"completed", "error", "failed"}
    /\ report.processed <=> report.processing_status = "completed"
    /\ (result # NotRun /\ result.status # "raised") => report.processing_status = "completed"

----------------------------------------------------------------------------
(* Properties of the persistence of a campaign report *)

\* _process_sponsored_products_campaign has run on the file
CampaignProcessed == result # NotRun

\* C26: persistence of a campaign report file is all-or-nothing: when
\* _process_sponsored_products_campaign raises at any row, no CampaignData
\* row of the file is stored; when it returns, exactly campaigns_processed
\* rows are stored and the returned total_spend, total_sales,
\* total_impressions and total_clicks are the sums over the stored rows
C26_AllOrNothing ==
  CampaignProcessed =>
    IF result.status = "raised" THEN campaign_data = <<>>
    ELSE /\ Len(campaign_data) = result.campaigns_processed
         /\ result.total_spend = SumOf(campaign_data, "spend")
         /\ result.total_sales = SumOf(campaign_data, "sales")
         /\ result.total_impressions = SumOf(campaign_data, "impressions")
         /\ result.total_clicks = SumOf(campaign_data, "clicks")

\* a file whose first row was added to the session and whose second row
\* raises: nothing is stored
C26_Witness ==
  /\ CampaignProcessed
  /\ result.status = "raised"
  /\ Len(file.rows) >= 2
  /\ AddedRecords(file, Today) # <<>>
  /\ RowRaises(file.header, file.rows[2])
  /\ campaign_data = <<>>

----------------------------------------------------------------------------
(* Properties of the grouping into campaigns *)

\* C27: records with different campaign names are never folded into one
\* campaign aggregate: the name of every aggregate of campaign_details is
\* the campaign_name of every record summed into it, also for a file without
\* a campaign-id column and for one with a single 'campaign' column
C27_OneNamePerAggregate ==
  Analysed =>
    LET details == analytics.campaign_analysis.campaign_details
    IN  \A k \in 1..Len(details) : \A i \in 1..Len(campaign_data) :
          campaign_data[i].amazon_campaign_id = details[k].campaign_id
            => campaign_data[i].campaign_name = details[k].name

----------------------------------------------------------------------------
(* Properties of the recommendation engine over rows with defects *)

\* the row with 0 for every metric it holds no value for
ZeroFilled(c) ==
  [k \in {"campaign_name", "acos", "cost", "sales", "impressions", "clicks"} |->
     IF k \in DOMAIN c THEN c[k] ELSE Zero]

\* C28: a null or missing acos, cost or sales of one campaign is recovered
\* locally by _generate_comprehensive_recommendations: the campaign is
\* treated as having the value 0 in every rule, and the recommendations for
\* the other campaigns are returned, not replaced by an empty error result
C28_DefectRecoveredLocally ==
  Optimized =>
    recommendations[1]
      = GenerateComprehensiveRecommendations(
          List([k \in 1..Len(campaign_data) |-> ZeroFilled(campaign_data[k])]))

----------------------------------------------------------------------------
(* Properties of the summary of the recommendations *)

\* the entries of the list that carry a potential_revenue_increase
WithRevenue(entries) ==
  SelectSeq(entries, LAMBDA r : "potential_revenue_increase" \in DOMAIN r)

\* the sum of potential_revenue_increase over the listed entries
ListedRevenue ==
  RatAdd(SumOf(WithRevenue(recommendations[1].campaign_recommendations),
               "potential_revenue_increase"),
         SumOf(WithRevenue(recommendations[1].scaling_opportunities),
               "potential_revenue_increase"))

\* recommendations_count and total_campaigns of the summary are the number
\* of entries in campaign_recommendations plus scaling_opportunities, and
\* the number of input campaigns
SummaryCounts ==
  /\ recommendations[1].summary.recommendations_count
       = Len(recommendations[1].campaign_recommendations)
           + Len(recommendations[1].scaling_opportunities)
  /\ recommendations[1].summary.total_campaigns = Len(campaign_data)

\* the summary holds a potential_revenue_increase
HasRevenue == "potential_revenue_increase" \in DOMAIN recommendations[1].summary

\* C29: in the result of _generate_comprehensive_recommendations,
\* summary.recommendations_count is the number of entries of
\* campaign_recommendations plus that of scaling_opportunities (bid
\* adjustments and budget recommendations are not counted),
\* summary.total_campaigns is the number of input campaigns, and
\* summary.potential_revenue_increase, where the summary holds one, is the sum
\* of potential_revenue_increase over the listed entries rounded to two
\* decimals
C29_SummaryOfLists ==
  Optimized =>
    /\ SummaryCounts
    /\ HasRevenue =>
         recommendations[1].summary.potential_revenue_increase = Round2(ListedRevenue)

\* C29 as stated: summary.potential_revenue_increase is the sum itself
C29_SummaryOfListsUnrounded ==
  Optimized =>
    /\ SummaryCounts
    /\ HasRevenue =>
         recommendations[1].summary.potential_revenue_increase = ListedRevenue

\* a campaign with few impressions and sales of 12.34 next to one with a bid
\* adjustment: the listed entry holds 2.468, the summary 2.47, and the bid
\* adjustment is not counted
C29_Witness ==
  /\ Optimized
  /\ recommendations[1].bid_adjustments # <<>>
  /\ recommendations[1].summary.recommendations_count = 1
  /\ ListedRevenue = Rat(2468, 1000)
  /\ recommendations[1].summary.potential_revenue_increase = Rat(247, 100)

----------------------------------------------------------------------------
(* Properties of the priority scale *)

\* 5 + s + a + r for the metrics of a campaign, without the cap
ClaimedUncapped(metrics) ==
  LET s == IF RatLess(Int2Rat(1000), metrics.spend) THEN 2
           ELSE IF RatLess(Int2Rat(500), metrics.spend) THEN 1 ELSE 0
      a == IF RatLess(Int2Rat(60), metrics.acos) THEN 3
           ELSE IF RatLess(Int2Rat(40), metrics.acos) THEN 2
           ELSE IF RatLess(Int2Rat(30), metrics.acos) THEN 1 ELSE 0
      r == IF RatLess(Int2Rat(4), metrics.roas) THEN 2
           ELSE IF RatLess(Int2Rat(3), metrics.roas) THEN 1 ELSE 0
  IN  5 + s + a + r

\* C30: for every campaign aggregate of _analyze_campaigns the uncapped
\* priority 5 + s + a + r never exceeds 10 and the priority is never below
\* 5; hence in the summary of get_campaign_optimization low_priority is 0
\* and high_priority + medium_priority is total_campaigns
C30_PriorityWithinScale ==
  Prioritised =>
    /\ \A i \in 1..Len(response.campaign_optimizations) :
         /\ ClaimedUncapped(response.campaign_optimizations[i].current_metrics) <= 10
         /\ response.campaign_optimizations[i].priority >= 5
    /\ response.summary.low_priority = 0
    /\ response.summary.high_priority + response.summary.medium_priority
         = response.summary.total_campaigns

\* three campaigns: one at 10 without the cap (spend 1200, ACOS 120), one
\* with ACOS 32 and ROAS 3.125 whose both parts count (9), one at the base 5
C30_Witness ==
  /\ Prioritised
  /\ Len(response.campaign_optimizations) = 3
  /\ ClaimedUncapped(response.campaign_optimizations[1].current_metrics) = 10
  /\ response.campaign_optimizations[2].current_metrics.acos = Int2Rat(32)
  /\ response.campaign_optimizations[2].current_metrics.roas = Rat(25, 8)
  /\ response.campaign_optimizations[2].priority = 9
  /\ response.campaign_optimizations[3].priority = 5
  /\ response.summary.high_priority = 2
  /\ response.summary.medium_priority = 1

====
